---------------------------- MODULE Spec2Model ----------------------------
(***************************************************************************)
(* A model of the candidate-job matching engine of AIResumeScanner:        *)
(* text normalisation and skill extraction (nlp_processor.py), scoring and *)
(* ranking (ranking_system.py), keyword aggregation (utils.py) and the     *)
(* batch "Analyze Resumes" handler (app.py).                               *)
(*                                                                         *)
(* Python strings are sequences of one-character strings, so that lower(), *)
(* strip(), substring tests and the regular expressions act on characters. *)
(* Every pure function is an operator; each has a specification whose Init *)
(* draws its arguments from a bounded universe and whose action calls it.  *)
(***************************************************************************)
EXTENDS Integers, Sequences, FiniteSets, TLC

VARIABLES
    \* preprocess_text: the argument, the result, the result of a second pass
    pre_text, pre_out, pre_out2, pre_pc,
    \* rank_resumes: the argument and the returned list
    rank_in, rank_out, rank_pc,
    \* calculate_similarity: the two texts, the two skill lists, what the TF-IDF
    \* library computes for the texts, and the returned score
    sc_job_description, sc_resume_text, sc_job_skills, sc_resume_skills,
    sc_cosine, sc_out, sc_pc,
    \* get_top_keywords: the arguments and the returned rows
    kw_resumes, kw_job_skills, kw_top_n, kw_out, kw_pc,
    \* extract_skills: the module's pattern catalog, the orders in which this
    \* process iterates over its two vocabulary sets, the argument and the result
    SKILL_PATTERNS, additional_order, soft_order, sk_text, sk_out, sk_pc,
    \* The "Analyze Resumes" run of app.py: the uploads and the job description, the
    \* handler's position and locals, the messages st.error has shown, the temporary
    \* files made, existing and unlinked, the rows saved to the database, the calls
    \* of its save functions and st.session_state
    uploaded_files, app_job_description, app_pc, file_index, app_resumes_data, job_id,
    st_errors, temp_files, db_rows, db_calls, session_state,
    \* The two sliders of the analysis settings and the candidates the results
    \* section shows for them
    min_skill_match, app_top_n, shown_resumes,
    \* extract_entities: the argument, the result, the state of the call
    ent_text, ent_out, ent_pc,
    \* load_skill_patterns: the file data/skill_patterns.json, the result, the state of the call
    patterns_file, load_out, load_pc,
    \* int(similarity_score * 100): the score, the percentage, the state of the step
    pct_score, pct_out, pct_pc,
    \* extract_job_requirements: the argument, the catalog and the iteration orders of the process, the result, the state of the call
    req_text, req_env, req_out, req_pc,
    \* a sequence of calls: the module's globals, the argument objects, both as they were at startup, and the calls made with their results
    mod_env, call_args, call_startup, call_log,
    \* the entity steps of one resume of the batch: the upload's name, the text the parser returned, the entities and the candidate name
    cand_file, cand_text, cand_out, cand_pc,
    \* the session: the number of the run of the script in which Analyze Resumes was pressed
    app_run

preVars == <<pre_text, pre_out, pre_out2, pre_pc>>
rankVars == <<rank_in, rank_out, rank_pc>>
scoreVars == <<sc_job_description, sc_resume_text, sc_job_skills, sc_resume_skills,
               sc_cosine, sc_out, sc_pc>>
kwVars == <<kw_resumes, kw_job_skills, kw_top_n, kw_out, kw_pc>>

skillVars == <<SKILL_PATTERNS, additional_order, soft_order, sk_text, sk_out, sk_pc>>

showVars == <<min_skill_match, app_top_n, shown_resumes>>
appVars == <<showVars, uploaded_files, app_job_description, app_pc, file_index, app_resumes_data, job_id,
             st_errors, temp_files, db_rows, db_calls, session_state>>

entVars == <<ent_text, ent_out, ent_pc>>

loadVars == <<patterns_file, load_out, load_pc>>

pctVars == <<pct_score, pct_out, pct_pc>>

reqVars == <<req_text, req_env, req_out, req_pc>>

callVars == <<mod_env, call_args, call_startup, call_log>>

candVars == <<cand_file, cand_text, cand_out, cand_pc>>

runVars == <<app_run>>

vars == <<preVars, rankVars, scoreVars, kwVars, skillVars, appVars, entVars, loadVars, pctVars, reqVars, callVars, candVars, runVars>>

\* What an operation on one component leaves alone: every other component.
notPre == <<rankVars, scoreVars, kwVars, skillVars, appVars, entVars, loadVars, pctVars, reqVars, callVars, candVars, runVars>>
notRank == <<preVars, scoreVars, kwVars, skillVars, appVars, entVars, loadVars, pctVars, reqVars, callVars, candVars, runVars>>
notScore == <<preVars, rankVars, kwVars, skillVars, appVars, entVars, loadVars, pctVars, reqVars, callVars, candVars, runVars>>
notKw == <<preVars, rankVars, scoreVars, skillVars, appVars, entVars, loadVars, pctVars, reqVars, callVars, candVars, runVars>>
notSkill == <<preVars, rankVars, scoreVars, kwVars, appVars, entVars, loadVars, pctVars, reqVars, callVars, candVars, runVars>>
notApp == <<preVars, rankVars, scoreVars, kwVars, skillVars, entVars, loadVars, pctVars, reqVars, callVars, candVars, runVars>>
notEnt == <<preVars, rankVars, scoreVars, kwVars, skillVars, appVars, loadVars, pctVars, reqVars, callVars, candVars, runVars>>
notLoad == <<preVars, rankVars, scoreVars, kwVars, skillVars, appVars, entVars, pctVars, reqVars, callVars, candVars, runVars>>
notPct == <<preVars, rankVars, scoreVars, kwVars, skillVars, appVars, entVars, loadVars, reqVars, callVars, candVars, runVars>>
notReq == <<preVars, rankVars, scoreVars, kwVars, skillVars, appVars, entVars, loadVars, pctVars, callVars, candVars, runVars>>
notCall == <<preVars, rankVars, scoreVars, kwVars, skillVars, appVars, entVars, loadVars, pctVars, reqVars, candVars, runVars>>
notCand == <<preVars, rankVars, scoreVars, kwVars, skillVars, appVars, entVars, loadVars, pctVars, reqVars, callVars, runVars>>
notRun == <<preVars, rankVars, scoreVars, kwVars, skillVars, appVars, entVars, loadVars, pctVars, reqVars, callVars, candVars>>

(***************************************************************************)
(* Characters and the str methods the code uses.                           *)
(***************************************************************************)

\* Python's None, kept apart from every string (no character is "None").
None == <<"None">>

\* string.ascii_lowercase and string.ascii_uppercase, letter by letter.
LowerAlphabet ==
    <<"a", "b", "c", "d", "e", "f", "g", "h", "i", "j", "k", "l", "m", "n",
      "o", "p", "q", "r", "s", "t", "u", "v", "w", "x", "y", "z">>
UpperAlphabet ==
    <<"A", "B", "C", "D", "E", "F", "G", "H", "I", "J", "K", "L", "M", "N",
      "O", "P", "Q", "R", "S", "T", "U", "V", "W", "X", "Y", "Z">>

LowerLetters == {LowerAlphabet[i] : i \in 1..Len(LowerAlphabet)}
UpperLetters == {UpperAlphabet[i] : i \in 1..Len(UpperAlphabet)}
Digits == {"0", "1", "2", "3", "4", "5", "6", "7", "8", "9"}
\* Uppercase letters (Unicode category Lu) that have no lowercase form, such as
\* U+2102 DOUBLE-STRUCK CAPITAL C: str.isupper() holds of them, str.lower() leaves
\* them as they are and \w matches them.  The name stands for the one character.
UncasedCapitals == {"U+2102"}
\* \w of a str pattern: letters, digits and the underscore.
WordChars == LowerLetters \cup UpperLetters \cup UncasedCapitals \cup Digits \cup {"_"}
\* \s of a str pattern, and what str.strip() removes.
SpaceChars == {" ", "\n", "\t"}

\* str.lower() on one character.
LowerChar(c) ==
    IF c \in UpperLetters
    THEN LowerAlphabet[CHOOSE i \in 1..Len(UpperAlphabet) : UpperAlphabet[i] = c]
    ELSE c

\* str.lower()
Lower(s) == [i \in 1..Len(s) |-> LowerChar(s[i])]

RECURSIVE LStrip(_)
\* str.lstrip()
LStrip(s) ==
    IF s # <<>> /\ Head(s) \in SpaceChars THEN LStrip(Tail(s)) ELSE s

RECURSIVE RStrip(_)
\* str.rstrip()
RStrip(s) ==
    IF s # <<>> /\ s[Len(s)] \in SpaceChars
    THEN RStrip(SubSeq(s, 1, Len(s) - 1))
    ELSE s

\* str.strip()
Strip(s) == RStrip(LStrip(s))

\* a in b, for two strings
IsSubstring(a, b) ==
    \E i \in 1..(Len(b) - Len(a) + 1) : SubSeq(b, i, i + Len(a) - 1) = a

\* str.replace(c, ''), for one character c
RemoveChar(s, c) == SelectSeq(s, LAMBDA x : x # c)

RECURSIVE DropRun(_, _)
\* s without its longest prefix of characters of S
DropRun(s, S) ==
    IF s # <<>> /\ Head(s) \in S THEN DropRun(Tail(s), S) ELSE s

RECURSIVE SubRuns(_, _)
\* re.sub(r'[S]+', ' ', s): every maximal run of characters of S becomes one space.
SubRuns(s, S) ==
    IF s = <<>> THEN <<>>
    ELSE IF Head(s) \in S THEN <<" ">> \o SubRuns(DropRun(Tail(s), S), S)
    ELSE <<Head(s)>> \o SubRuns(Tail(s), S)

\* re.sub(r'[^\w\s]', ' ', s): every other character becomes a space.
SubNonWordSpace(s) ==
    [i \in 1..Len(s) |-> IF s[i] \in WordChars \cup SpaceChars THEN s[i] ELSE " "]

(***************************************************************************)
(* nlp_processor.preprocess_text                                           *)
(***************************************************************************)

\* The mutant of preprocess_text: the punctuation pass runs after the whitespace
\* pass, so the spaces it writes are never collapsed or stripped.
preprocess_text_punct_last(text) ==
    IF text = None \/ text = <<>> THEN <<>>
    ELSE SubNonWordSpace(Strip(SubRuns(SubRuns(Lower(text), {"\n"}), SpaceChars)))

preprocess_text(text) ==
    IF text = None \/ text = <<>> THEN <<>>
    ELSE Strip(SubRuns(SubNonWordSpace(SubRuns(Lower(text), {"\n"})), SpaceChars))

\* The characters the texts handed to preprocess_text are made of.
PreAlphabet == {"S", "q", " ", "\n", "\t", "/", "_", "U+2102"}
MaxPreLen == 4

RECURSIVE SeqsUpTo(_, _)
\* The sequences over S of length at most n.
SeqsUpTo(S, n) ==
    IF n = 0 THEN {<<>>}
    ELSE LET shorter == SeqsUpTo(S, n - 1)
         IN shorter \cup {Append(s, x) : s \in {t \in shorter : Len(t) = n - 1}, x \in S}

PreStart ==
    /\ pre_text \in SeqsUpTo(PreAlphabet, MaxPreLen) \cup {None}
    /\ pre_out = None
    /\ pre_out2 = None
    /\ pre_pc = "start"

PreIdle ==
    /\ pre_text = None
    /\ pre_out = None
    /\ pre_out2 = None
    /\ pre_pc = "idle"

\* out = preprocess_text(text)
Preprocess ==
    /\ pre_pc = "start"
    /\ pre_out' = preprocess_text(pre_text)
    /\ pre_pc' = "once"
    /\ UNCHANGED <<pre_text, pre_out2, notPre>>

\* out2 = preprocess_text(out)
PreprocessAgain ==
    /\ pre_pc = "once"
    /\ pre_out2' = preprocess_text(pre_out)
    /\ pre_pc' = "twice"
    /\ UNCHANGED <<pre_text, pre_out, notPre>>

PreNext == Preprocess \/ PreprocessAgain

\* C8: preprocess_text is idempotent, and maps None and "" to "".
PreprocessIdempotent ==
    /\ pre_pc = "twice" => pre_out2 = pre_out
    /\ (pre_pc # "start" /\ pre_text \in {None, <<>>}) => pre_out = <<>>

\* A text whose normalisation changed it (case, punctuation, newline and a run of
\* blanks) has been normalised twice.
PreprocessIdempotentWitness ==
    /\ pre_pc = "twice"
    /\ pre_text = <<"S", "/", "\n", "q">>
    /\ pre_out = <<"s", " ", "q">>

\* str.isupper() on one character.
IsUpper(c) == c \in UpperLetters \cup UncasedCapitals

\* C17: the output of preprocess_text is in normal form: no uppercase letter,
\* nothing but word characters and single spaces, no newline, no run of two or
\* more whitespace characters, no whitespace at either end.
PreprocessNormalForm ==
    pre_pc \in {"once", "twice"} =>
        /\ \A i \in 1..Len(pre_out) : ~IsUpper(pre_out[i])
        /\ \A i \in 1..Len(pre_out) : pre_out[i] \in WordChars \cup {" "}
        /\ \A i \in 1..Len(pre_out) : pre_out[i] # "\n"
        /\ \A i \in 1..(Len(pre_out) - 1) :
               ~(pre_out[i] \in SpaceChars /\ pre_out[i + 1] \in SpaceChars)
        /\ pre_out # <<>> =>
               pre_out[1] \notin SpaceChars /\ pre_out[Len(pre_out)] \notin SpaceChars

(***************************************************************************)
(* ranking_system.rank_resumes                                             *)
(***************************************************************************)

RECURSIVE InsertDescending(_, _)
\* x put into a list sorted by non-increasing score, behind every element whose
\* score is at least x's: the place a stable descending sort gives it.
InsertDescending(sorted, x) ==
    IF sorted # <<>> /\ Head(sorted).similarity_score >= x.similarity_score
    THEN <<Head(sorted)>> \o InsertDescending(Tail(sorted), x)
    ELSE <<x>> \o sorted

RECURSIVE InsertAscending(_, _)
\* x put into a list sorted by non-decreasing score, behind its equals.
InsertAscending(sorted, x) ==
    IF sorted # <<>> /\ Head(sorted).similarity_score <= x.similarity_score
    THEN <<Head(sorted)>> \o InsertAscending(Tail(sorted), x)
    ELSE <<x>> \o sorted

\* The mutant of SortedDescending: no sort, the list is returned as it came in.
SortedAsGiven(list) == list

RECURSIVE SortedDescending(_)
\* sorted(list, key=lambda x: x['similarity_score'], reverse=True): Python's sort is
\* stable, and reverse=True keeps the input order of equal keys.
SortedDescending(list) ==
    IF list = <<>> THEN <<>>
    ELSE InsertDescending(SortedDescending(SubSeq(list, 1, Len(list) - 1)), list[Len(list)])

RECURSIVE SortedAscending(_)
\* sorted(list, key=lambda x: x['similarity_score'])
SortedAscending(list) ==
    IF list = <<>> THEN <<>>
    ELSE InsertAscending(SortedAscending(SubSeq(list, 1, Len(list) - 1)), list[Len(list)])

\* list[::-1]
Reversed(list) == [i \in 1..Len(list) |-> list[Len(list) + 1 - i]]

\* The mutant of rank_resumes: an ascending sort, then reversed, which also
\* reverses the candidates whose scores are equal.
rank_resumes_reversed(resumes_data) == Reversed(SortedAscending(resumes_data))

rank_resumes(resumes_data) == SortedDescending(resumes_data)

\* The mutant of rank_resumes_raises: the first candidate is looked at before
\* the sort, which raises IndexError when there is none.
rank_resumes_raises_on_empty(resumes_data) ==
    \/ resumes_data = <<>>
    \/ \E i \in 1..Len(resumes_data) : "similarity_score" \notin DOMAIN resumes_data[i]

\* key=lambda x: x['similarity_score'] raises KeyError on a record without the
\* score; sorted calls it once for each record, so never on an empty list.
rank_resumes_raises(resumes_data) ==
    \E i \in 1..Len(resumes_data) : "similarity_score" \notin DOMAIN resumes_data[i]

MaxRankBatch == 3
MaxRankScore == 3

\* The candidate in place i of a batch: its file name tells the place.
RankRecord(i, score) == [filename |-> i, similarity_score |-> score]

RankStart ==
    /\ rank_in \in {[i \in 1..Len(scores) |-> RankRecord(i, scores[i])] :
                       scores \in SeqsUpTo(0..MaxRankScore, MaxRankBatch)}
    /\ rank_out = <<>>
    /\ rank_pc = "start"

RankIdle ==
    /\ rank_in = <<>>
    /\ rank_out = <<>>
    /\ rank_pc = "idle"

\* ranked = rank_resumes(resumes_data): the call returns the sorted list, or the
\* exception of the key function leaves it.
Rank ==
    /\ rank_pc = "start"
    /\ IF rank_resumes_raises(rank_in)
       THEN rank_out' = <<>> /\ rank_pc' = "raised"
       ELSE rank_out' = rank_resumes(rank_in) /\ rank_pc' = "done"
    /\ UNCHANGED <<rank_in, notRank>>

\* C1: the ranked list is a permutation of the batch, in non-increasing order of
\* score, and two candidates of equal score keep the order they had in the batch.
RankStablePermutation ==
    rank_pc = "done" =>
        /\ Len(rank_out) = Len(rank_in)
        /\ \A i \in 1..Len(rank_in) : \E j \in 1..Len(rank_out) : rank_out[j] = rank_in[i]
        /\ \A j \in 1..(Len(rank_out) - 1) :
               rank_out[j].similarity_score >= rank_out[j + 1].similarity_score
        /\ \A j, k \in 1..Len(rank_out) :
               (j < k /\ rank_out[j].similarity_score = rank_out[k].similarity_score)
                   => rank_out[j].filename < rank_out[k].filename

\* A batch with a tie between its first and last candidate and a higher score
\* between them has been ranked.
RankStablePermutationWitness ==
    /\ rank_pc = "done"
    /\ rank_in = <<RankRecord(1, 1), RankRecord(2, 2), RankRecord(3, 1)>>
    /\ rank_out = <<RankRecord(2, 2), RankRecord(1, 1), RankRecord(3, 1)>>

\* C14: ranking an empty batch is not an error: rank_resumes of an empty list
\* returns an empty list and raises nothing.
RankEmptyBatch ==
    rank_in = <<>> /\ rank_pc # "start" /\ rank_pc # "idle" =>
        rank_pc = "done" /\ rank_out = <<>>

\* The empty batch has been ranked.
RankEmptyBatchWitness ==
    /\ rank_in = <<>>
    /\ rank_pc = "done"
    /\ rank_out = <<>>

(***************************************************************************)
(* ranking_system.calculate_similarity                                     *)
(*                                                                         *)
(* Here a text is the sequence of its tokens and a skill list a sequence   *)
(* of labels.  A similarity is a whole number of units of 1/CosScale and a *)
(* score a whole number of units of 1/ScoreUnit, so that                   *)
(* 0.6 * m/n + 0.4 * similarity is computed exactly.                       *)
(***************************************************************************)

\* The elements of a list.
Range(list) == {list[i] : i \in 1..Len(list)}

RECURSIVE Concat(_)
\* The lists of a list, joined.
Concat(pieces) == IF pieces = <<>> THEN <<>> ELSE Head(pieces) \o Concat(Tail(pieces))

\* list.count(x)
Count(x, list) == Cardinality({i \in 1..Len(list) : list[i] = x})

\* A list without repetition, as extract_skills returns them.
NoRepeat(list) == \A i, j \in 1..Len(list) : list[i] = list[j] => i = j

RECURSIVE Factorial(_)
Factorial(n) == IF n = 0 THEN 1 ELSE n * Factorial(n - 1)

SkillNames == {"python", "sql", "java"}
MaxJobSkills == 2
MaxResumeSkills == 3
CosScale == 4
MaxDocLen == 2

\* Every m/n with n <= MaxJobSkills and every c/CosScale is a whole number of
\* tenths of this unit.
ScoreUnit == 10 * CosScale * Factorial(MaxJobSkills)

\* TfidfVectorizer(stop_words='english') drops the English stop words, and its
\* token pattern drops the tokens of fewer than two characters.
StopWords == {"the"}
ShortTokens == {"r"}
DocTokens == {"python", "sql", "the"}

\* The texts of the calls: the short ones, and one of five terms.
Documents ==
    SeqsUpTo(DocTokens, MaxDocLen) \cup {<<"docker", "java", "java", "python", "sql">>}

\* The terms of a document that reach the TF-IDF matrix.
Terms(doc) == {t \in Range(doc) : t \notin StopWords /\ t \notin ShortTokens}

\* The vocabulary fit_transform learns from the two documents.
Vocabulary(corpus) == Terms(corpus[1]) \cup Terms(corpus[2])

\* A document of the terms docker, java, java, python, sql in some order.  The
\* vectorizer sorts the vocabulary, so its TF-IDF row is (1, 2, 1, 1) / sqrt(7), and
\* in IEEE-754 double arithmetic the sum of the squares of that row, added left to
\* right, is 1.0000000000000004.
RowNormAboveOne(doc) ==
    /\ Terms(doc) = {"docker", "java", "python", "sql"}
    /\ <<Count("docker", doc), Count("java", doc), Count("python", doc),
          Count("sql", doc)>> = <<1, 2, 1, 1>>

\* What cosine_similarity of the two rows of the TF-IDF matrix can be: 0 when the
\* documents share no term (a row of zeros included), less than 1 when their terms
\* differ, and 1 when they hold the same terms the same number of times, unless
\* the rounded product of the row with itself is above 1.0: 1/CosScale stands for
\* that excess, which a build that fuses the multiplications and additions may
\* not show.
CosineValues(job_description, resume_text) ==
    IF Terms(job_description) \cap Terms(resume_text) = {} THEN {0}
    ELSE IF \A t \in Vocabulary(<<job_description, resume_text>>) :
                Count(t, job_description) = Count(t, resume_text)
    THEN IF RowNormAboveOne(job_description) THEN {CosScale, CosScale + 1}
         ELSE {CosScale}
    ELSE IF Terms(job_description) # Terms(resume_text) THEN 1..(CosScale - 1)
    ELSE 1..CosScale

\* The body of the try block: fit_transform raises ValueError on an empty
\* vocabulary, and otherwise the cosine of the two rows is computed.
TfidfCosine(job_description, resume_text, cosine) ==
    IF Vocabulary(<<job_description, resume_text>>) = {}
    THEN [raised |-> TRUE, value |-> 0]
    ELSE [raised |-> FALSE, value |-> cosine]

\* The mutant of cosine_sim: the try block without its except clause.
cosine_sim_uncaught(job_description, resume_text, cosine) ==
    TfidfCosine(job_description, resume_text, cosine)

\* try: ... except Exception: cosine_sim = 0.0
cosine_sim(job_description, resume_text, cosine) ==
    LET tried == TfidfCosine(job_description, resume_text, cosine)
    IN IF tried.raised THEN [raised |-> FALSE, value |-> 0] ELSE tried

\* The mutant of skill_match_ratio: a job without skills counts as fully matched.
skill_match_ratio_empty_one(job_skills, resume_skills) ==
    IF job_skills # <<>>
    THEN [num |-> Cardinality(Range(job_skills) \cap Range(resume_skills)),
          den |-> Len(job_skills)]
    ELSE [num |-> 1, den |-> 1]

\* len(set(job_skills).intersection(set(resume_skills))) / len(job_skills), or 0
skill_match_ratio(job_skills, resume_skills) ==
    IF job_skills # <<>>
    THEN [num |-> Cardinality(Range(job_skills) \cap Range(resume_skills)),
          den |-> Len(job_skills)]
    ELSE [num |-> 0, den |-> 1]

\* The mutant of combined_score for the weights: 0.4 and 0.6 exchanged.
combined_score_swapped(ratio, cosine) ==
    4 * ratio.num * (ScoreUnit \div (10 * ratio.den))
        + 6 * cosine * (ScoreUnit \div (10 * CosScale))

\* (0.6 * skill_match_ratio) + (0.4 * cosine_sim)
combined_score(ratio, cosine) ==
    6 * ratio.num * (ScoreUnit \div (10 * ratio.den))
        + 4 * cosine * (ScoreUnit \div (10 * CosScale))

\* calculate_similarity: what it returns, or that it raised.
calculate_similarity(job_description, resume_text, job_skills, resume_skills, cosine) ==
    LET lexical == cosine_sim(job_description, resume_text, cosine)
    IN IF lexical.raised THEN [raised |-> TRUE, score |-> 0]
       ELSE [raised |-> FALSE,
             score |-> combined_score(skill_match_ratio(job_skills, resume_skills),
                                      lexical.value)]

\* The skill lists of at most n labels.
SkillLists(n) == {list \in SeqsUpTo(SkillNames, n) : NoRepeat(list)}

ScoreStart ==
    /\ sc_job_description \in Documents
    /\ sc_resume_text \in Documents
    /\ sc_job_skills \in SkillLists(MaxJobSkills)
    /\ sc_resume_skills \in SkillLists(MaxResumeSkills)
    /\ sc_cosine \in CosineValues(sc_job_description, sc_resume_text)
    /\ sc_out = [raised |-> FALSE, score |-> 0]
    /\ sc_pc = "start"

ScoreIdle ==
    /\ sc_job_description = <<>>
    /\ sc_resume_text = <<>>
    /\ sc_job_skills = <<>>
    /\ sc_resume_skills = <<>>
    /\ sc_cosine = 0
    /\ sc_out = [raised |-> FALSE, score |-> 0]
    /\ sc_pc = "idle"

\* score = calculate_similarity(job_description, resume_text, job_skills, resume_skills)
Score ==
    /\ sc_pc = "start"
    /\ sc_out' = calculate_similarity(sc_job_description, sc_resume_text,
                                      sc_job_skills, sc_resume_skills, sc_cosine)
    /\ sc_pc' = "done"
    /\ UNCHANGED <<sc_job_description, sc_resume_text, sc_job_skills,
                   sc_resume_skills, sc_cosine, notScore>>

\* The lexical similarity of the call's two texts, in units of 1/CosScale.
ScLexical ==
    IF Vocabulary(<<sc_job_description, sc_resume_text>>) = {} THEN 0 ELSE sc_cosine

\* The labels the call's two skill lists share.
ScShared == Range(sc_job_skills) \cap Range(sc_resume_skills)

ScoreIsWeightedSum ==
    sc_pc = "done" =>
        LET ratio == skill_match_ratio(sc_job_skills, sc_resume_skills)
        IN /\ 10 * ratio.den * CosScale * sc_out.score
                 = ScoreUnit * (6 * ratio.num * CosScale + 4 * ScLexical * ratio.den)
           /\ (/\ sc_job_skills = <<"python", "sql">>
               /\ sc_resume_skills = <<"python", "sql", "java">>
               /\ 2 * ScLexical = CosScale)
                  => 10 * sc_out.score = 8 * ScoreUnit

\* The call of the example returned 0.8.
ScoreIsWeightedSumWitness ==
    /\ sc_pc = "done"
    /\ sc_job_skills = <<"python", "sql">>
    /\ sc_resume_skills = <<"python", "sql", "java">>
    /\ 2 * ScLexical = CosScale
    /\ 10 * sc_out.score = 8 * ScoreUnit

\* C5: the skill term of the score is 0.6 * |job_skills n resume_skills| / |job_skills|
\* for a non-empty job_skills; for an empty one it is 0 and the score is
\* 0.4 * lexical similarity, whatever resume_skills is.
ScoreSkillOverlap ==
    sc_pc = "done" =>
        LET lexicalPart == 4 * ScLexical * (ScoreUnit \div (10 * CosScale))
        IN IF sc_job_skills # <<>>
           THEN 10 * Len(sc_job_skills) * (sc_out.score - lexicalPart)
                    = 6 * Cardinality(ScShared) * ScoreUnit
           ELSE 10 * CosScale * sc_out.score = 4 * ScLexical * ScoreUnit

\* A call with no job skill, a resume with skills and a positive similarity
\* returned 0.4 * similarity.
ScoreSkillOverlapWitness ==
    /\ sc_pc = "done"
    /\ sc_job_skills = <<>>
    /\ Len(sc_resume_skills) = 3
    /\ ScLexical = CosScale
    /\ 10 * sc_out.score = 4 * ScoreUnit

\* C6: a call whose vectorisation fails (no term survives in either text) does not
\* raise and returns the skill term alone, the lexical similarity counting as 0.0.
ScoreSurvivesEmptyVocabulary ==
    (sc_pc = "done" /\ Vocabulary(<<sc_job_description, sc_resume_text>>) = {}) =>
        /\ ~sc_out.raised
        /\ IF sc_job_skills = <<>> THEN sc_out.score = 0
           ELSE 10 * Len(sc_job_skills) * sc_out.score
                    = 6 * Cardinality(ScShared) * ScoreUnit

\* A call on two texts of stop words only, with one of two job skills matched,
\* returned 0.3.
ScoreSurvivesEmptyVocabularyWitness ==
    /\ sc_pc = "done"
    /\ sc_job_description = <<"the">>
    /\ sc_resume_text = <<"the", "the">>
    /\ sc_job_skills = <<"python", "sql">>
    /\ ScShared = {"sql"}
    /\ ~sc_out.raised
    /\ 10 * sc_out.score = 3 * ScoreUnit

(***************************************************************************)
(* utils.get_top_keywords                                                  *)
(*                                                                         *)
(* A Counter is the list of its (keyword, frequency) rows in the order in  *)
(* which the keywords were first counted, which is the order a dict keeps. *)
(***************************************************************************)

\* skill_counter[skill] += 1
Increment(counter, skill) ==
    IF \E i \in 1..Len(counter) : counter[i].keyword = skill
    THEN [i \in 1..Len(counter) |->
             IF counter[i].keyword = skill
             THEN [counter[i] EXCEPT !.frequency = @ + 1]
             ELSE counter[i]]
    ELSE Append(counter, [keyword |-> skill, frequency |-> 1])

RECURSIVE CountSkillsAll(_, _, _)
\* The mutant of CountSkills: the inner loop without its "if skill in job_skills".
CountSkillsAll(counter, skills, job_skills) ==
    IF skills = <<>> THEN counter
    ELSE CountSkillsAll(Increment(counter, Head(skills)), Tail(skills), job_skills)

RECURSIVE CountSkills(_, _, _)
\* for skill in resume['skills']: if skill in job_skills: skill_counter[skill] += 1
CountSkills(counter, skills, job_skills) ==
    IF skills = <<>> THEN counter
    ELSE CountSkills(IF Head(skills) \in Range(job_skills)
                     THEN Increment(counter, Head(skills))
                     ELSE counter,
                     Tail(skills), job_skills)

RECURSIVE CountResumes(_, _, _)
\* for resume in resumes_data: ...
CountResumes(counter, resumes_data, job_skills) ==
    IF resumes_data = <<>> THEN counter
    ELSE CountResumes(CountSkills(counter, Head(resumes_data).skills, job_skills),
                      Tail(resumes_data), job_skills)

RECURSIVE InsertBeforeEquals(_, _)
\* The mutant of InsertByFrequency: a sort that is not stable, a row going in front
\* of the rows of its frequency.
InsertBeforeEquals(sorted, row) ==
    IF sorted # <<>> /\ Head(sorted).frequency > row.frequency
    THEN <<Head(sorted)>> \o InsertBeforeEquals(Tail(sorted), row)
    ELSE <<row>> \o sorted

RECURSIVE InsertByFrequency(_, _)
\* A row put into a list sorted by non-increasing frequency, behind its equals.
InsertByFrequency(sorted, row) ==
    IF sorted # <<>> /\ Head(sorted).frequency >= row.frequency
    THEN <<Head(sorted)>> \o InsertByFrequency(Tail(sorted), row)
    ELSE <<row>> \o sorted

RECURSIVE SortedByFrequency(_)
\* sorted(counter.items(), key=itemgetter(1), reverse=True)
SortedByFrequency(rows) ==
    IF rows = <<>> THEN <<>>
    ELSE InsertByFrequency(SortedByFrequency(SubSeq(rows, 1, Len(rows) - 1)),
                           rows[Len(rows)])

\* Counter.most_common(n), which is heapq.nlargest(n, items, key=itemgetter(1)):
\* the first n rows of the stable sort by non-increasing frequency.
most_common(counter, n) ==
    LET sorted == SortedByFrequency(counter)
    IN SubSeq(sorted, 1, IF n < Len(sorted) THEN n ELSE Len(sorted))

\* get_top_keywords: the rows of the returned DataFrame.
get_top_keywords(resumes_data, job_skills, top_n) ==
    most_common(CountResumes(<<>>, resumes_data, job_skills), top_n)

MaxKwBatch == 2
MaxKwSkills == 2
MaxKwTopN == 2

KwStart ==
    /\ kw_resumes \in SeqsUpTo({[skills |-> list] : list \in SkillLists(MaxKwSkills)},
                               MaxKwBatch)
    /\ kw_job_skills \in SkillLists(MaxJobSkills)
    /\ kw_top_n \in 1..MaxKwTopN
    /\ kw_out = <<>>
    /\ kw_pc = "start"

KwIdle ==
    /\ kw_resumes = <<>>
    /\ kw_job_skills = <<>>
    /\ kw_top_n = 0
    /\ kw_out = <<>>
    /\ kw_pc = "idle"

\* top_keywords_df = get_top_keywords(resumes_data, job_skills, top_n)
TopKeywords ==
    /\ kw_pc = "start"
    /\ kw_out' = get_top_keywords(kw_resumes, kw_job_skills, kw_top_n)
    /\ kw_pc' = "done"
    /\ UNCHANGED <<kw_resumes, kw_job_skills, kw_top_n, notKw>>

\* The number of candidates of the subset whose skill list holds the skill.
KwHolders(skill) ==
    Cardinality({i \in 1..Len(kw_resumes) : skill \in Range(kw_resumes[i].skills)})

\* The job skills that at least one candidate of the subset holds.
KwHeld == {skill \in Range(kw_job_skills) : KwHolders(skill) > 0}

\* C10: every reported row names a job skill, once, with the number of candidates
\* that hold it; when top_n does not cut the table, every job skill that a
\* candidate holds is reported.  Candidates {python, sql} and {python, java} with
\* job skills {python, sql} give python 2, sql 1.
KeywordFrequencies ==
    kw_pc = "done" =>
        /\ \A i \in 1..Len(kw_out) :
               /\ kw_out[i].keyword \in Range(kw_job_skills)
               /\ kw_out[i].frequency = KwHolders(kw_out[i].keyword)
               /\ kw_out[i].frequency > 0
               /\ \A j \in 1..Len(kw_out) : kw_out[j].keyword = kw_out[i].keyword => j = i
        /\ Cardinality(KwHeld) <= kw_top_n
               => {kw_out[i].keyword : i \in 1..Len(kw_out)} = KwHeld
        /\ (/\ kw_resumes = <<[skills |-> <<"python", "sql">>],
                              [skills |-> <<"python", "java">>]>>
            /\ kw_job_skills = <<"python", "sql">>
            /\ kw_top_n >= 2)
               => kw_out = <<[keyword |-> "python", frequency |-> 2],
                             [keyword |-> "sql", frequency |-> 1]>>

\* The table of the example has been computed: java, held by a candidate, is not
\* a job skill and is not in it.
KeywordFrequenciesWitness ==
    /\ kw_pc = "done"
    /\ kw_resumes = <<[skills |-> <<"python", "sql">>], [skills |-> <<"python", "java">>]>>
    /\ kw_job_skills = <<"python", "sql">>
    /\ kw_top_n = 2
    /\ Len(kw_out) = 2
    /\ kw_out[1] = [keyword |-> "python", frequency |-> 2]
    /\ kw_out[2] = [keyword |-> "sql", frequency |-> 1]

\* The skills in the order in which the two loops of get_top_keywords meet them.
KwScan == Concat([i \in 1..Len(kw_resumes) |-> kw_resumes[i].skills])

\* The place at which the loops first meet a skill that a candidate holds.
KwFirstSeen(skill) ==
    CHOOSE i \in 1..Len(KwScan) :
        KwScan[i] = skill /\ \A j \in 1..(i - 1) : KwScan[j] # skill

\* Skill a comes before skill b in the table: it is held by more candidates, or by
\* as many and met first.
KwBefore(a, b) ==
    \/ KwHolders(a) > KwHolders(b)
    \/ KwHolders(a) = KwHolders(b) /\ KwFirstSeen(a) < KwFirstSeen(b)

\* C11: the rows come by non-increasing frequency, rows of equal frequency in the
\* order in which their skills were first met, and they are the first top_n rows
\* of that order: there are min(top_n, number of held job skills) of them, and
\* every held job skill left out comes after every row.
KeywordOrder ==
    kw_pc = "done" =>
        /\ \A i, j \in 1..Len(kw_out) :
               i < j => /\ kw_out[i].frequency >= kw_out[j].frequency
                        /\ KwBefore(kw_out[i].keyword, kw_out[j].keyword)
        /\ Len(kw_out) = IF kw_top_n < Cardinality(KwHeld)
                         THEN kw_top_n ELSE Cardinality(KwHeld)
        /\ \A skill \in KwHeld \ {kw_out[i].keyword : i \in 1..Len(kw_out)} :
               \A i \in 1..Len(kw_out) : KwBefore(kw_out[i].keyword, skill)

\* A table of one row has been cut from two skills of equal frequency: the row is
\* the skill met first, sql, though the job lists python first.
KeywordOrderWitness ==
    /\ kw_pc = "done"
    /\ kw_resumes = <<[skills |-> <<"sql", "python">>]>>
    /\ kw_job_skills = <<"python", "sql">>
    /\ kw_top_n = 1
    /\ kw_out = <<[keyword |-> "sql", frequency |-> 1]>>

(***************************************************************************)
(* The regular expressions of extract_skills.                              *)
(*                                                                         *)
(* re is modelled on the patterns a catalog of this model can hold: plain  *)
(* characters, backslash escapes and an opening parenthesis.  None holds a *)
(* quantifier, a character set or a closed group.                          *)
(***************************************************************************)

AllChars == WordChars \cup SpaceChars \cup {"/", "\\", "("}

\* The escapes \a \d \r \s \t \S of re, as the characters of the model they match
\* (the model has no bell and no carriage return).
ClassEscapes == {"a", "d", "r", "s", "t", "S"}
EscapeSet(e) ==
    CASE e = "s" -> SpaceChars
      [] e = "S" -> AllChars \ SpaceChars
      [] e = "d" -> Digits
      [] e = "t" -> {"\t"}
      [] OTHER -> {}

ReError == [error |-> TRUE, atoms |-> <<>>]

RECURSIVE ReParse(_)
\* re.compile: the atoms of the expression, or re.error for an escape re does not
\* know (a backslash before any other letter or digit, or at the end) and for a
\* group that is not closed.  An atom is the assertion \b or a set of characters.
ReParse(regex) ==
    IF regex = <<>> THEN [error |-> FALSE, atoms |-> <<>>]
    ELSE IF Head(regex) = "\\"
    THEN IF Len(regex) = 1 THEN ReError
         ELSE LET e == regex[2]
                  rest == ReParse(SubSeq(regex, 3, Len(regex)))
                  atom == IF e = "b" THEN [kind |-> "b", chars |-> {}]
                          ELSE IF e \in ClassEscapes
                          THEN [kind |-> "set", chars |-> EscapeSet(e)]
                          ELSE [kind |-> "set", chars |-> {e}]
              IN IF e # "b" /\ e \notin ClassEscapes
                        /\ e \in LowerLetters \cup UpperLetters \cup Digits
                 THEN ReError
                 ELSE IF rest.error THEN ReError
                 ELSE [error |-> FALSE, atoms |-> <<atom>> \o rest.atoms]
    ELSE IF Head(regex) = "("
    THEN ReError
    ELSE LET rest == ReParse(Tail(regex))
         IN IF rest.error THEN ReError
            ELSE [error |-> FALSE,
                  atoms |-> <<[kind |-> "set", chars |-> {LowerChar(Head(regex))}]>>
                                \o rest.atoms]

\* \b at position pos: exactly one of the characters around it is a word character.
Boundary(text, pos) ==
    (pos > 1 /\ text[pos - 1] \in WordChars)
        # (pos <= Len(text) /\ text[pos] \in WordChars)

RECURSIVE MatchAt(_, _, _)
\* The position behind the match of the atoms at pos, under re.IGNORECASE; 0 when
\* they do not match there.
MatchAt(atoms, text, pos) ==
    IF atoms = <<>> THEN pos
    ELSE IF Head(atoms).kind = "b"
    THEN IF Boundary(text, pos) THEN MatchAt(Tail(atoms), text, pos) ELSE 0
    ELSE IF pos <= Len(text) /\ (text[pos] \in Head(atoms).chars
                                    \/ LowerChar(text[pos]) \in Head(atoms).chars)
    THEN MatchAt(Tail(atoms), text, pos + 1)
    ELSE 0

RECURSIVE FindIter(_, _, _)
\* re.finditer: match.group(0) of the matches from position from on, leftmost
\* first and without overlap.
FindIter(atoms, text, from) ==
    IF from > Len(text) + 1 THEN <<>>
    ELSE LET end == MatchAt(atoms, text, from)
         IN IF end = 0 THEN FindIter(atoms, text, from + 1)
            ELSE <<SubSeq(text, from, end - 1)>>
                     \o FindIter(atoms, text, IF end > from THEN end ELSE from + 1)

(***************************************************************************)
(* nlp_processor.extract_skills                                            *)
(***************************************************************************)

\* r'\b' + pattern.replace('\\', '\\') + r'\b': the replace changes nothing.
RegexPattern(pattern) == <<"\\", "b">> \o pattern \o <<"\\", "b">>

\* re.sub(r'[^\w\s\+\-\.]', '', skill_found).strip()
CleanSkill(skill_found) ==
    Strip(SelectSeq(skill_found, LAMBDA c : c \in WordChars \cup SpaceChars))

\* The try block of one pattern: the cleaned matches of more than one character.
PatternMatches(atoms, text_lower) ==
    SelectSeq([i \in 1..Len(FindIter(atoms, text_lower, 1)) |->
                  CleanSkill(FindIter(atoms, text_lower, 1)[i])],
              LAMBDA skill_found : Len(skill_found) > 1)

\* The mutant of OnReError: no except clause, re.error leaves extract_skills.
OnReErrorUncaught(pattern, text_lower) ==
    [raised |-> TRUE, found |-> <<>>]

\* except re.error: the pattern without its backslashes, if the lowercased pattern
\* is a substring of the lowercased text.
OnReError(pattern, text_lower) ==
    [raised |-> FALSE,
     found |-> IF IsSubstring(Lower(pattern), text_lower)
               THEN <<RemoveChar(pattern, "\\")>>
               ELSE <<>>]

\* The body of "for pattern in patterns": what one pattern adds to matched_skills.
MatchPattern(pattern, text_lower) ==
    LET compiled == ReParse(RegexPattern(pattern))
    IN IF compiled.error THEN OnReError(pattern, text_lower)
       ELSE [raised |-> FALSE, found |-> PatternMatches(compiled.atoms, text_lower)]

RECURSIVE MatchPatterns(_, _)
\* for pattern in patterns: ..., until a pattern raises.
MatchPatterns(patterns, text_lower) ==
    IF patterns = <<>> THEN [raised |-> FALSE, found |-> <<>>]
    ELSE LET first == MatchPattern(Head(patterns), text_lower)
             rest == MatchPatterns(Tail(patterns), text_lower)
         IN IF first.raised \/ rest.raised THEN [raised |-> TRUE, found |-> <<>>]
            ELSE [raised |-> FALSE, found |-> first.found \o rest.found]

RECURSIVE AllPatterns(_)
\* for category, patterns in SKILL_PATTERNS.items(): the patterns in dict order.
AllPatterns(catalog) ==
    IF catalog = <<>> THEN <<>>
    ELSE Head(catalog).patterns \o AllPatterns(Tail(catalog))

\* The members of the two vocabulary sets that the model keeps.
ADDITIONAL_SKILLS == {<<"r">>, <<"g", "i", "t">>}
SOFT_SKILLS == {<<"e", "m", "p", "a", "t", "h", "y">>}

\* for skill in vocabulary: if skill.lower() in text_lower: matched_skills.append(skill)
VocabularyMatches(order, text_lower) ==
    SelectSeq(order, LAMBDA skill : IsSubstring(Lower(skill), text_lower))

\* The mutant of skill_normalized: no lower(), so the comparison tells case apart.
skill_normalized_cased(skill) == Strip(skill)

\* skill.lower().strip()
skill_normalized(skill) == Strip(Lower(skill))

RECURSIVE UniqueSkills(_, _, _)
\* The last loop: a skill is kept if its normalized form has more than one
\* character and was not seen before.
UniqueSkills(matched_skills, seen, unique_skills) ==
    IF matched_skills = <<>> THEN unique_skills
    ELSE LET skill == Head(matched_skills)
         IN IF skill_normalized(skill) \notin seen /\ Len(skill_normalized(skill)) > 1
            THEN UniqueSkills(Tail(matched_skills), seen \cup {skill_normalized(skill)},
                              Append(unique_skills, skill))
            ELSE UniqueSkills(Tail(matched_skills), seen, unique_skills)

\* matched_skills before the last loop, or that a pattern raised.
MatchedSkills(catalog, additional, soft, text) ==
    LET text_lower == Lower(text)
        byPattern == MatchPatterns(AllPatterns(catalog), text_lower)
    IN IF byPattern.raised THEN byPattern
       ELSE [raised |-> FALSE,
             found |-> byPattern.found \o VocabularyMatches(additional, text_lower)
                           \o VocabularyMatches(soft, text_lower)]

\* extract_skills(text), with the catalog and the two iteration orders it reads.
extract_skills(catalog, additional, soft, text) ==
    IF text = None \/ text = <<>> THEN [raised |-> FALSE, skills |-> <<>>]
    ELSE LET matched == MatchedSkills(catalog, additional, soft, text)
         IN IF matched.raised THEN [raised |-> TRUE, skills |-> <<>>]
            ELSE [raised |-> FALSE, skills |-> UniqueSkills(matched.found, {}, <<>>)]

\* Two patterns of the embedded default catalog, and three patterns that re cannot
\* compile: two with an escape re does not know, one with an unclosed group.
PatSql == <<"s", "q", "l">>
PatCiCd == <<"c", "i", "/", "c", "d">>
PatBadGit == <<"\\", "G", "i", "t">>
PatBadGitBlank == <<"\\", "g", "i", "t", " ">>
PatBadSql == <<"s", "q", "l", "(">>
MalformedPatterns == {PatBadGit, PatBadGitBlank, PatBadSql}

BaseCatalog ==
    <<[category |-> "database", patterns |-> <<PatSql>>],
      [category |-> "devops", patterns |-> <<PatCiCd>>]>>

\* The catalogs json.load can have returned: the base one, and the base one with a
\* malformed pattern in front of or behind the well-formed ones.
Catalogs ==
    {BaseCatalog}
        \cup {[BaseCatalog EXCEPT ![1].patterns = <<p>> \o @] : p \in MalformedPatterns}
        \cup {[BaseCatalog EXCEPT ![2].patterns = @ \o <<p>>] : p \in MalformedPatterns}

\* The orders in which a process can iterate over a set.
Orders(S) == {order \in SeqsUpTo(S, Cardinality(S)) : Range(order) = S /\ NoRepeat(order)}

\* The texts are made of these pieces.
Fragments ==
    {<<"s", "q", "l">>, <<"G", "i", "t">>, <<"\\">>, <<" ">>, <<"r">>,
     <<"c", "i", "/", "c", "d">>, <<"e", "m", "p", "a", "t", "h", "y">>}
MaxFragments == 3


SkillStart ==
    /\ SKILL_PATTERNS \in Catalogs
    /\ additional_order \in Orders(ADDITIONAL_SKILLS)
    /\ soft_order \in Orders(SOFT_SKILLS)
    /\ sk_text \in {Concat(pieces) : pieces \in SeqsUpTo(Fragments, MaxFragments)} \cup {None}
    /\ sk_out = [raised |-> FALSE, skills |-> <<>>]
    /\ sk_pc = "start"

SkillIdle ==
    /\ SKILL_PATTERNS = <<>>
    /\ additional_order = <<>>
    /\ soft_order = <<>>
    /\ sk_text = None
    /\ sk_out = [raised |-> FALSE, skills |-> <<>>]
    /\ sk_pc = "idle"

\* skills = extract_skills(text)
ExtractSkills ==
    /\ sk_pc = "start"
    /\ sk_out' = extract_skills(SKILL_PATTERNS, additional_order, soft_order, sk_text)
    /\ sk_pc' = "done"
    /\ UNCHANGED <<SKILL_PATTERNS, additional_order, soft_order, sk_text, notSkill>>

\* A pattern of the catalog that re cannot compile.
Malformed(pattern) == ReParse(RegexPattern(pattern)).error

SkHasMalformed == \E p \in Range(AllPatterns(SKILL_PATTERNS)) : Malformed(p)

\* What the call returns from the catalog without its malformed patterns.
SkWithoutMalformed ==
    extract_skills([c \in 1..Len(SKILL_PATTERNS) |->
                       [SKILL_PATTERNS[c] EXCEPT
                           !.patterns = SelectSeq(@, LAMBDA p : ~Malformed(p))]],
                   additional_order, soft_order, sk_text).skills

\* The form under which two labels count as one skill: lowercased and trimmed.
SkillKey(skill) == Strip(Lower(skill))

RECURSIVE FirstOfEachKey(_, _, _)
\* The entries of a list whose key has more than one character and is the key of
\* no earlier entry, in the order of the list.
FirstOfEachKey(matched, Key(_), earlier) ==
    IF matched = <<>> THEN <<>>
    ELSE IF Len(Key(Head(matched))) > 1 /\ Key(Head(matched)) \notin earlier
    THEN <<Head(matched)>>
             \o FirstOfEachKey(Tail(matched), Key, earlier \cup {Key(Head(matched))})
    ELSE FirstOfEachKey(Tail(matched), Key, earlier \cup {Key(Head(matched))})

\* The matches of the call, in the order in which they were found.
SkMatched ==
    IF sk_text = None \/ sk_text = <<>> THEN <<>>
    ELSE MatchedSkills(SKILL_PATTERNS, additional_order, soft_order, sk_text).found

\* No two entries of the result are equal but for letter case, and none has fewer
\* than two characters.
SkNoDuplicateNoShort ==
    /\ \A i, j \in 1..Len(sk_out.skills) :
           Lower(sk_out.skills[i]) = Lower(sk_out.skills[j]) => i = j
    /\ \A i \in 1..Len(sk_out.skills) : Len(sk_out.skills[i]) > 1

\* C9 as claimed: the result has no two entries equal but for letter case and no
\* entry of fewer than two characters, and is the first match of every group of
\* matches equal but for letter case, in the order found.
SkillsFirstOfEachCase ==
    (sk_pc = "done" /\ ~sk_out.raised) =>
        /\ SkNoDuplicateNoShort
        /\ sk_out.skills = FirstOfEachKey(SkMatched, Lower, {})

\* C9, amended: the groups are those of the matches equal but for letter case and
\* surrounding blanks.
SkillsFirstOfEachKey ==
    (sk_pc = "done" /\ ~sk_out.raised) =>
        /\ SkNoDuplicateNoShort
        /\ sk_out.skills = FirstOfEachKey(SkMatched, SkillKey, {})

\* A call found "Git", "git" and the one-character "r" and returned "Git" alone.
SkillsFirstOfEachKeyWitness ==
    /\ sk_pc = "done"
    /\ Range(SkMatched) = {<<"G", "i", "t">>, <<"g", "i", "t">>, <<"r">>}
    /\ sk_out.skills = <<<<"G", "i", "t">>>>

\* C22: a pattern that re cannot compile adds its text, the backslashes taken out,
\* to the candidate skills exactly when that text occurs in the lowercased
\* input, letter case apart.
FallbackOnUnescapedText ==
    (sk_pc = "done" /\ sk_text # None /\ sk_text # <<>>) =>
        \A pattern \in Range(AllPatterns(SKILL_PATTERNS)) :
            Malformed(pattern) =>
                (RemoveChar(pattern, "\\") \in Range(SkMatched)
                    <=> IsSubstring(Lower(RemoveChar(pattern, "\\")), Lower(sk_text)))

(***************************************************************************)
(* The regular expressions of extract_entities.                            *)
(*                                                                         *)
(* The patterns of extract_entities are fixed, so each is written down as  *)
(* the list of its items: a set of characters repeated between min and max *)
(* times, the assertion \b, or a group of alternatives that is taken once  *)
(* or, when it is optional, not at all.  The matcher tries what re tries,  *)
(* in re's order: the longest repetition first, the alternatives from left *)
(* to right, an optional group before its absence.                         *)
(***************************************************************************)

\* str.upper() on one character.
UpperChar(c) ==
    IF c \in LowerLetters
    THEN UpperAlphabet[CHOOSE i \in 1..Len(LowerAlphabet) : LowerAlphabet[i] = c]
    ELSE c

\* The characters of the texts of this model.
TextChars ==
    WordChars \cup SpaceChars
        \cup {"@", ".", "+", "-", "%", "/", ":", "(", ")", "|", ",", "!", "?", "'"}

\* [S]{min,max}; max is -1 for a repetition without upper limit
Repeat(S, min, max) == [kind |-> "set", chars |-> S, min |-> min, max |-> max]
\* [S]
One(S) == Repeat(S, 1, 1)
\* [S]?
Maybe(S) == Repeat(S, 0, 1)
\* [S]*
Star(S) == Repeat(S, 0, -1)
\* [S]+
Plus(S) == Repeat(S, 1, -1)
\* The characters of a word, one after the other.
Word(w) == [i \in 1..Len(w) |-> One({w[i]})]
\* \b
WordBoundary == [kind |-> "b"]
\* (?:a|b|...) and (?:a|b|...)?
Either(alternatives) == [kind |-> "group", alts |-> alternatives, min |-> 1]
Optional(alternatives) == [kind |-> "group", alts |-> alternatives, min |-> 0]

\* Character c is in the set S, under re.IGNORECASE in either case of c.
InSet(c, S, ignorecase) ==
    \/ c \in S
    \/ ignorecase /\ (LowerChar(c) \in S \/ UpperChar(c) \in S)

RECURSIVE RunLength(_, _, _, _, _)
\* The number of characters of S from pos on, counted up to max (-1: no limit).
RunLength(S, text, pos, ignorecase, max) ==
    IF max # 0 /\ pos <= Len(text) /\ InSet(text[pos], S, ignorecase)
    THEN 1 + RunLength(S, text, pos + 1, ignorecase, IF max > 0 THEN max - 1 ELSE max)
    ELSE 0

RECURSIVE ReMatch(_, _, _, _)
RECURSIVE ReMatchRun(_, _, _, _, _, _)
RECURSIVE ReMatchAlts(_, _, _, _, _)

\* The position behind the match re finds for the items at pos, 0 when there is
\* none.
ReMatch(items, text, pos, ignorecase) ==
    IF items = <<>> THEN pos
    ELSE LET item == Head(items)
             rest == Tail(items)
         IN CASE item.kind = "b" ->
                     IF Boundary(text, pos) THEN ReMatch(rest, text, pos, ignorecase)
                     ELSE 0
              [] item.kind = "set" ->
                     LET longest == RunLength(item.chars, text, pos, ignorecase, item.max)
                     IN IF longest < item.min THEN 0
                        ELSE ReMatchRun(rest, text, pos, ignorecase, longest, item.min)
              [] item.kind = "group" ->
                     LET taken == ReMatchAlts(item.alts, rest, text, pos, ignorecase)
                     IN IF taken # 0 \/ item.min = 1 THEN taken
                        ELSE ReMatch(rest, text, pos, ignorecase)

\* A greedy repetition: the rest is tried behind count characters, then behind
\* one fewer, down to least.
ReMatchRun(rest, text, pos, ignorecase, count, least) ==
    LET end == ReMatch(rest, text, pos + count, ignorecase)
    IN IF end # 0 \/ count = least THEN end
       ELSE ReMatchRun(rest, text, pos, ignorecase, count - 1, least)

\* The alternatives of a group, each tried with the rest behind it, in order.
ReMatchAlts(alts, rest, text, pos, ignorecase) ==
    IF alts = <<>> THEN 0
    ELSE LET end == ReMatch(Head(alts) \o rest, text, pos, ignorecase)
         IN IF end # 0 THEN end
            ELSE ReMatchAlts(Tail(alts), rest, text, pos, ignorecase)

RECURSIVE ReFindAllFrom(_, _, _, _)
\* The matches from position from on, leftmost first and without overlap.
ReFindAllFrom(items, text, from, ignorecase) ==
    IF from > Len(text) + 1 THEN <<>>
    ELSE LET end == ReMatch(items, text, from, ignorecase)
         IN IF end = 0 THEN ReFindAllFrom(items, text, from + 1, ignorecase)
            ELSE <<SubSeq(text, from, end - 1)>>
                     \o ReFindAllFrom(items, text, IF end > from THEN end ELSE from + 1,
                                      ignorecase)

\* re.findall(pattern, text, flags) for a pattern without capturing group
ReFindAll(items, text, ignorecase) == ReFindAllFrom(items, text, 1, ignorecase)

(***************************************************************************)
(* nlp_processor.extract_entities                                          *)
(*                                                                         *)
(* An entity is the pair (entity_text, entity_label).                      *)
(***************************************************************************)

Letters == LowerLetters \cup UpperLetters

\* [\s.-]
PhoneSeparators == SpaceChars \cup {".", "-"}

\* r'\b[A-Za-z0-9._%+-]+@[A-Za-z0-9.-]+\.[A-Z|a-z]{2,}\b'
email_pattern ==
    <<WordBoundary, Plus(Letters \cup Digits \cup {".", "_", "%", "+", "-"}), One({"@"}),
      Plus(Letters \cup Digits \cup {".", "-"}), One({"."}),
      Repeat(Letters \cup {"|"}, 2, -1), WordBoundary>>

\* (?:\+\d{1,3}\s?)?
CountryCode == Optional(<<<<One({"+"}), Repeat(Digits, 1, 3), Maybe(SpaceChars)>>>>)

\* r'\b(?:\+\d{1,3}\s?)?\(?\d{3}\)?[\s.-]?\d{3}[\s.-]?\d{4}\b'
\* r'\b(?:\+\d{1,3}\s?)?\d{3}[\s.-]?\d{3}[\s.-]?\d{4}\b'
\* r'\b(?:\+\d{1,3}\s?)?\d{10}\b'
phone_patterns ==
    <<<<WordBoundary, CountryCode, Maybe({"("}), Repeat(Digits, 3, 3), Maybe({")"}),
        Maybe(PhoneSeparators), Repeat(Digits, 3, 3), Maybe(PhoneSeparators),
        Repeat(Digits, 4, 4), WordBoundary>>,
      <<WordBoundary, CountryCode, Repeat(Digits, 3, 3), Maybe(PhoneSeparators),
        Repeat(Digits, 3, 3), Maybe(PhoneSeparators), Repeat(Digits, 4, 4), WordBoundary>>,
      <<WordBoundary, CountryCode, Repeat(Digits, 10, 10), WordBoundary>>>>

\* r'https?://[^\s]+'
url_pattern ==
    Word(<<"h", "t", "t", "p">>) \o <<Maybe({"s"})>> \o Word(<<":", "/", "/">>)
        \o <<Plus(TextChars \ SpaceChars)>>

\* r'linkedin\.com/in/[^\s]+'
linkedin_pattern ==
    Word(<<"l", "i", "n", "k", "e", "d", "i", "n", ".", "c", "o", "m", "/", "i", "n", "/">>)
        \o <<Plus(TextChars \ SpaceChars)>>

\* r'github\.com/[^\s/]+'
github_pattern ==
    Word(<<"g", "i", "t", "h", "u", "b", ".", "c", "o", "m", "/">>)
        \o <<Plus(TextChars \ (SpaceChars \cup {"/"}))>>

\* r'\b(?:Bachelor|Master|PhD|MBA|B\.S\.|M\.S\.|B\.A\.|M\.A\.|B\.Sc\.|M\.Sc\.)[^\n]*'
\* r'\b(?:Certified|Certification)\s+[A-Za-z\s]+'
\* r'\b(?:AWS|Azure|Google|Microsoft|Oracle|Cisco)\s+Certified[^\n]*'
education_patterns ==
    <<<<WordBoundary,
        Either(<<
               Word(<<"B", "a", "c", "h", "e", "l", "o", "r">>),
               Word(<<"M", "a", "s", "t", "e", "r">>), Word(<<"P", "h", "D">>),
               Word(<<"M", "B", "A">>), Word(<<"B", ".", "S", ".">>),
               Word(<<"M", ".", "S", ".">>), Word(<<"B", ".", "A", ".">>),
               Word(<<"M", ".", "A", ".">>), Word(<<"B", ".", "S", "c", ".">>),
               Word(<<"M", ".", "S", "c", ".">>)>>),
        Star(TextChars \ {"\n"})>>,
      <<WordBoundary,
        Either(<<
               Word(<<"C", "e", "r", "t", "i", "f", "i", "e", "d">>),
               Word(<<"C", "e", "r", "t", "i", "f", "i", "c", "a", "t", "i", "o", "n">>)>>),
        Plus(SpaceChars), Plus(Letters \cup SpaceChars)>>,
      <<WordBoundary,
        Either(<<
               Word(<<"A", "W", "S">>), Word(<<"A", "z", "u", "r", "e">>),
               Word(<<"G", "o", "o", "g", "l", "e">>),
               Word(<<"M", "i", "c", "r", "o", "s", "o", "f", "t">>),
               Word(<<"O", "r", "a", "c", "l", "e">>), Word(<<"C", "i", "s", "c", "o">>)>>),
        Plus(SpaceChars)>> \o Word(<<"C", "e", "r", "t", "i", "f", "i", "e", "d">>)
          \o <<Star(TextChars \ {"\n"})>>>>

\* r'\b(\d+)\+?\s*(?:years?|yrs?)\s*(?:of\s*)?(?:experience|exp)\b'
experience_pattern ==
    <<WordBoundary, Plus(Digits), Maybe({"+"}), Star(SpaceChars),
      Either(<<Word(<<"y", "e", "a", "r">>) \o <<Maybe({"s"})>>,
               Word(<<"y", "r">>) \o <<Maybe({"s"})>>>>),
      Star(SpaceChars),
      Optional(<<Word(<<"o", "f">>) \o <<Star(SpaceChars)>>>>),
      Either(<<Word(<<"e", "x", "p", "e", "r", "i", "e", "n", "c", "e">>), Word(<<"e", "x", "p">>)>>),
      WordBoundary>>

\* ['resume', 'cv', 'curriculum', 'profile', 'summary']
HeaderKeywords ==
    <<
      <<"r", "e", "s", "u", "m", "e">>, <<"c", "v">>,
      <<"c", "u", "r", "r", "i", "c", "u", "l", "u", "m">>,
      <<"p", "r", "o", "f", "i", "l", "e">>, <<"s", "u", "m", "m", "a", "r", "y">>>>

\* company_keywords
company_keywords ==
    <<
      <<"i", "n", "c">>, <<"c", "o", "r", "p">>, <<"l", "t", "d">>, <<"l", "l", "c">>,
      <<"c", "o", "m", "p", "a", "n", "y">>,
      <<"c", "o", "r", "p", "o", "r", "a", "t", "i", "o", "n">>,
      <<"l", "i", "m", "i", "t", "e", "d">>,
      <<"t", "e", "c", "h", "n", "o", "l", "o", "g", "i", "e", "s">>,
      <<"s", "y", "s", "t", "e", "m", "s">>, <<"s", "o", "l", "u", "t", "i", "o", "n", "s">>>>

RECURSIVE SplitOn(_, _)
\* str.split(sep), for one character sep
SplitOn(s, sep) ==
    IF \E i \in 1..Len(s) : s[i] = sep
    THEN LET first == CHOOSE i \in 1..Len(s) : s[i] = sep /\ \A j \in 1..(i - 1) : s[j] # sep
         IN <<SubSeq(s, 1, first - 1)>> \o SplitOn(SubSeq(s, first + 1, Len(s)), sep)
    ELSE <<s>>

\* len(line.split()): the number of runs of characters that are not whitespace.
TokenCount(line) ==
    Cardinality({i \in 1..Len(line) :
                    line[i] \notin SpaceChars /\ (i = 1 \/ line[i - 1] \in SpaceChars)})

\* any(char.isdigit() for char in line)
HasDigit(line) == \E i \in 1..Len(line) : line[i] \in Digits

\* any(keyword in line.lower() for keyword in keywords)
HasKeyword(line, keywords) ==
    \E k \in 1..Len(keywords) : IsSubstring(keywords[k], Lower(line))

\* The matches, each with the label.
Labelled(matches, label) == [i \in 1..Len(matches) |-> <<matches[i], label>>]

\* [m.strip() for m in matches]
Stripped(matches) == [i \in 1..Len(matches) |-> Strip(matches[i])]

RECURSIVE PersonScan(_)
\* The loop over the lines it is given: the first line that, stripped, is not
\* empty, has at most 4 tokens, no digit and no header keyword is the PERSON, and
\* the loop breaks.
PersonScan(lines) ==
    IF lines = <<>> THEN <<>>
    ELSE LET line == Strip(Head(lines))
         IN IF line # <<>> /\ TokenCount(line) <= 4 /\ ~HasDigit(line)
                  /\ ~HasKeyword(line, HeaderKeywords)
            THEN <<<<line, "PERSON">>>>
            ELSE PersonScan(Tail(lines))

\* lines[:3]
FirstLines(lines) == SubSeq(lines, 1, IF Len(lines) < 3 THEN Len(lines) ELSE 3)

\* for i, line in enumerate(lines[:3]): ...
PersonEntities(text) == PersonScan(FirstLines(SplitOn(text, "\n")))

RECURSIVE FindEach(_, _, _)
\* The matches of the patterns of a list, pattern after pattern, each stripped.
FindEach(patterns, text, ignorecase) ==
    IF patterns = <<>> THEN <<>>
    ELSE Stripped(ReFindAll(Head(patterns), text, ignorecase))
             \o FindEach(Tail(patterns), text, ignorecase)

\* for line in lines: the stripped lines with a company keyword and at most 6 tokens
OrganizationEntities(text) ==
    LET lines == Stripped(SplitOn(text, "\n"))
    IN Labelled(SelectSeq(lines, LAMBDA line : HasKeyword(line, company_keywords)
                                                  /\ TokenCount(line) <= 6),
                "ORGANIZATION")

\* f"{exp} years experience", exp being group 1 of the match: the digits it begins
\* with (the pattern lets nothing but the whole run of digits go into the group).
ExperienceEntities(text) ==
    LET matches == ReFindAll(experience_pattern, text, TRUE)
    IN [i \in 1..Len(matches) |->
           <<SubSeq(matches[i], 1, RunLength(Digits, matches[i], 1, FALSE, -1))
                 \o <<" ", "y", "e", "a", "r", "s", " ", "e", "x", "p", "e", "r", "i", "e", "n", "c", "e">>,
             "EXPERIENCE">>]

\* entities, before the duplicates are removed
FoundEntities(text) ==
    PersonEntities(text)
        \o Labelled(ReFindAll(email_pattern, text, TRUE), "EMAIL")
        \o Labelled(FindEach(phone_patterns, text, FALSE), "PHONE")
        \o Labelled(ReFindAll(url_pattern, text, TRUE), "URL")
        \o Labelled(ReFindAll(linkedin_pattern, text, TRUE), "LINKEDIN")
        \o Labelled(ReFindAll(github_pattern, text, TRUE), "GITHUB")
        \o Labelled(FindEach(education_patterns, text, TRUE), "EDUCATION")
        \o OrganizationEntities(text)
        \o ExperienceEntities(text)

\* The mutant of entity_key: the text compared as written.
entity_key_cased(entity) == <<entity[1], entity[2]>>

\* entity_key = (entity_text.lower(), entity_label)
entity_key(entity) == <<Lower(entity[1]), entity[2]>>

RECURSIVE UniqueEntities(_, _, _)
\* for entity_text, entity_label in entities: ...
UniqueEntities(entities, seen, unique_entities) ==
    IF entities = <<>> THEN unique_entities
    ELSE IF entity_key(Head(entities)) \notin seen
    THEN UniqueEntities(Tail(entities), seen \cup {entity_key(Head(entities))},
                        Append(unique_entities, Head(entities)))
    ELSE UniqueEntities(Tail(entities), seen, unique_entities)

extract_entities(text) ==
    IF text = None \/ text = <<>> THEN <<>>
    ELSE UniqueEntities(FoundEntities(text), {}, <<>>)

\* The lines of the texts of the calls.
EntityLines ==
    {<<>>,
     <<"C", "V">>,
     <<"A", "l", " ", "I", "n", "c">>,
     <<"A", "L", " ", "I", "N", "C">>,
     <<"M", "B", "A", " ", "2", " ", "y", "r", "s", " ", "e", "x", "p">>}

MaxLines == 4

\* '\n'.join(lines)
JoinLines(lines) ==
    IF lines = <<>> THEN <<>>
    ELSE Concat([i \in 1..(2 * Len(lines) - 1) |->
                    IF i % 2 = 1 THEN lines[(i + 1) \div 2] ELSE <<"\n">>])

EntStart ==
    /\ ent_text \in {JoinLines(lines) : lines \in SeqsUpTo(EntityLines, MaxLines)}
                        \cup {None}
    /\ ent_out = <<>>
    /\ ent_pc = "start"

EntIdle ==
    /\ ent_text = <<>>
    /\ ent_out = <<>>
    /\ ent_pc = "idle"

\* entities = extract_entities(text)
ExtractEntities ==
    /\ ent_pc = "start"
    /\ ent_out' = extract_entities(ent_text)
    /\ ent_pc' = "done"
    /\ UNCHANGED <<ent_text, notEnt>>

\* The entities of the result that have the label.
EntLabelled(label) == SelectSeq(ent_out, LAMBDA entity : entity[2] = label)

\* The types, in the order of the scan.
EntityTypes ==
    <<"PERSON", "EMAIL", "PHONE", "URL", "LINKEDIN", "GITHUB", "EDUCATION",
      "ORGANIZATION", "EXPERIENCE">>

(***************************************************************************)
(* C13: the result of extract_entities has no two entities of one type     *)
(* whose texts are equal but for the case; of the entities found that are  *)
(* equal in this way the first is the one kept; the kept ones are in the   *)
(* order they are found in, which is the order of the scan PERSON, EMAIL,  *)
(* PHONE, URL, LINKEDIN, GITHUB, EDUCATION, ORGANIZATION, EXPERIENCE; and  *)
(* every type of the result is one of these nine.                          *)
(***************************************************************************)
EntitiesFirstOfEachKey ==
    ent_pc = "done" /\ ent_text # None =>
        LET found == IF ent_text = <<>> THEN <<>> ELSE FoundEntities(ent_text)
            Same(a, b) == a[2] = b[2] /\ Lower(a[1]) = Lower(b[1])
            Firsts == {k \in 1..Len(found) :
                          \A j \in 1..(k - 1) : ~Same(found[j], found[k])}
            Nth(i) == CHOOSE k \in Firsts : Cardinality({j \in Firsts : j < k}) = i - 1
            TypeRank(entity) == CHOOSE r \in 1..Len(EntityTypes) : EntityTypes[r] = entity[2]
        IN /\ \A i, j \in 1..Len(ent_out) : i < j => ~Same(ent_out[i], ent_out[j])
           /\ Len(ent_out) = Cardinality(Firsts)
           /\ \A i \in 1..Len(ent_out) : ent_out[i] = found[Nth(i)]
           /\ \A i \in 1..Len(ent_out) : ent_out[i][2] \in Range(EntityTypes)
           /\ \A i, j \in 1..Len(ent_out) :
                  i < j => TypeRank(ent_out[i]) <= TypeRank(ent_out[j])

EntitiesFirstOfEachKeyWitness ==
    /\ ent_pc = "done"
    /\ ent_text = JoinLines(<<<<"A", "l", " ", "I", "n", "c">>, <<"A", "L", " ", "I", "N", "C">>, <<"A", "l", " ", "I", "n", "c">>>>)
    /\ ent_out = <<<<<<"A", "l", " ", "I", "n", "c">>, "PERSON">>, <<<<"A", "l", " ", "I", "n", "c">>, "ORGANIZATION">>>>

(***************************************************************************)
(* C20: extract_entities emits at most one PERSON, looking at no more than *)
(* the first 3 lines that are not empty (the blank lines are not counted): *)
(* the first of them with at most 4 tokens, no digit and no header keyword *)
(* is the PERSON, and the scan stops there.                                *)
(***************************************************************************)
PersonOfFirstNonEmptyLines ==
    ent_pc = "done" /\ ent_text # None /\ ent_text # <<>> =>
        LET filled == SelectSeq(Stripped(SplitOn(ent_text, "\n")),
                                LAMBDA line : line # <<>>)
            scanned == SubSeq(filled, 1, IF Len(filled) < 3 THEN Len(filled) ELSE 3)
            Qualifies(line) == /\ TokenCount(line) <= 4
                               /\ ~HasDigit(line)
                               /\ ~HasKeyword(line, HeaderKeywords)
            Chosen == {i \in 1..Len(scanned) :
                          /\ Qualifies(scanned[i])
                          /\ \A j \in 1..(i - 1) : ~Qualifies(scanned[j])}
        IN IF Chosen = {} THEN EntLabelled("PERSON") = <<>>
           ELSE \E i \in Chosen : EntLabelled("PERSON") = <<<<scanned[i], "PERSON">>>>

(***************************************************************************)
(* nlp_processor.load_skill_patterns                                       *)
(*                                                                         *)
(* The file data/skill_patterns.json is absent, or holds bytes that are    *)
(* not UTF-8, or holds text that is not JSON, or holds a JSON object.  A   *)
(* catalog is the list of the categories of the object in their order,     *)
(* each with the list of its patterns.                                     *)
(***************************************************************************)

\* The dictionary returned by the except clause.
default_patterns ==
    <<[category |-> "programming",
       patterns |-> <<<<"p", "y", "t", "h", "o", "n">>,
                      <<"j", "a", "v", "a">>,
                      <<"j", "a", "v", "a", "s", "c", "r", "i", "p", "t">>,
                      <<"c", "\\", "+", "\\", "+">>,
                      <<"t", "y", "p", "e", "s", "c", "r", "i", "p", "t">>,
                      <<"p", "h", "p">>,
                      <<"r", "u", "b", "y">>>>],
      [category |-> "web",
       patterns |-> <<<<"h", "t", "m", "l">>,
                      <<"c", "s", "s">>,
                      <<"r", "e", "a", "c", "t">>,
                      <<"a", "n", "g", "u", "l", "a", "r">>,
                      <<"v", "u", "e">>,
                      <<"n", "o", "d", "e", "\\", ".", "?", "j", "s">>,
                      <<"e", "x", "p", "r", "e", "s", "s">>,
                      <<"d", "j", "a", "n", "g", "o">>,
                      <<"f", "l", "a", "s", "k">>>>],
      [category |-> "data_science",
       patterns |-> <<<<"m", "a", "c", "h", "i", "n", "e", " ", "l", "e", "a", "r", "n", "i", "n", "g">>,
                      <<"d", "e", "e", "p", " ", "l", "e", "a", "r", "n", "i", "n", "g">>,
                      <<"p", "a", "n", "d", "a", "s">>,
                      <<"n", "u", "m", "p", "y">>,
                      <<"s", "k", "l", "e", "a", "r", "n">>,
                      <<"t", "e", "n", "s", "o", "r", "f", "l", "o", "w">>,
                      <<"p", "y", "t", "o", "r", "c", "h">>>>],
      [category |-> "database",
       patterns |-> <<<<"s", "q", "l">>,
                      <<"m", "y", "s", "q", "l">>,
                      <<"p", "o", "s", "t", "g", "r", "e", "s", "q", "l">>,
                      <<"m", "o", "n", "g", "o", "d", "b">>,
                      <<"r", "e", "d", "i", "s">>,
                      <<"o", "r", "a", "c", "l", "e">>>>],
      [category |-> "devops",
       patterns |-> <<<<"d", "o", "c", "k", "e", "r">>,
                      <<"k", "u", "b", "e", "r", "n", "e", "t", "e", "s">>,
                      <<"a", "w", "s">>,
                      <<"a", "z", "u", "r", "e">>,
                      <<"g", "c", "p">>,
                      <<"j", "e", "n", "k", "i", "n", "s">>,
                      <<"c", "i", "/", "c", "d">>,
                      <<"t", "e", "r", "r", "a", "f", "o", "r", "m">>>>]>>

MaxFileCategories == 2
MaxFilePatterns == 2

\* The JSON objects the file can hold.
FileCatalogs ==
    {catalog \in SeqsUpTo([category : {"database", "devops"},
                           patterns : SeqsUpTo({PatSql, PatCiCd}, MaxFilePatterns)],
                          MaxFileCategories) :
        NoRepeat([c \in 1..Len(catalog) |-> catalog[c].category])}

PatternFiles ==
    {[kind |-> "absent"], [kind |-> "not utf-8"], [kind |-> "not json"]}
        \cup {[kind |-> "json", value |-> catalog] : catalog \in FileCatalogs}

\* What the try block does: open() raises FileNotFoundError when the file is
\* absent, the read of json.load raises UnicodeDecodeError on bytes that are not
\* UTF-8, its parse raises json.JSONDecodeError on text that is not JSON.
LoadTry(file) ==
    CASE file.kind = "absent" -> [raises |-> "FileNotFoundError"]
      [] file.kind = "not utf-8" -> [raises |-> "UnicodeDecodeError"]
      [] file.kind = "not json" -> [raises |-> "JSONDecodeError"]
      [] file.kind = "json" -> [raises |-> "nothing", value |-> file.value]

\* except (FileNotFoundError, json.JSONDecodeError)
LoadCaught == {"FileNotFoundError", "JSONDecodeError"}

load_skill_patterns(file) ==
    LET tried == LoadTry(file)
    IN IF tried.raises = "nothing" THEN [raised |-> FALSE, patterns |-> tried.value]
       ELSE IF tried.raises \in LoadCaught
       THEN [raised |-> FALSE, patterns |-> default_patterns]
       ELSE [raised |-> TRUE, patterns |-> <<>>]

LoadStart ==
    /\ patterns_file \in PatternFiles
    /\ load_out = [raised |-> FALSE, patterns |-> <<>>]
    /\ load_pc = "start"

LoadIdle ==
    /\ patterns_file = [kind |-> "absent"]
    /\ load_out = [raised |-> FALSE, patterns |-> <<>>]
    /\ load_pc = "idle"

\* SKILL_PATTERNS = load_skill_patterns()
LoadSkillPatterns ==
    /\ load_pc = "start"
    /\ load_out' = load_skill_patterns(patterns_file)
    /\ load_pc' = "done"
    /\ UNCHANGED <<patterns_file, notLoad>>

\* The categories of a catalog.
Categories(catalog) == {catalog[c].category : c \in 1..Len(catalog)}

(***************************************************************************)
(* C15: when the file is absent or cannot be parsed, load_skill_patterns   *)
(* raises nothing and returns the default catalog, which has at least the  *)
(* categories programming, web, data_science, database and devops; when    *)
(* the file is there and can be parsed, its content is returned.           *)
(***************************************************************************)
LoadFallsBackToDefault ==
    load_pc = "done" =>
        /\ ~load_out.raised
        /\ IF patterns_file.kind = "json"
           THEN load_out.patterns = patterns_file.value
           ELSE /\ load_out.patterns = default_patterns
                /\ {"programming", "web", "data_science", "database", "devops"}
                       \subseteq Categories(load_out.patterns)

(***************************************************************************)
(* nlp_processor.extract_job_requirements                                  *)
(***************************************************************************)

\* (?:years?|yrs?)
Years ==
    Either(<<Word(<<"y", "e", "a", "r">>) \o <<Maybe({"s"})>>, Word(<<"y", "r">>) \o <<Maybe({"s"})>>>>)

\* r'(\d+)\+?\s*(?:years?|yrs?)\s*(?:of\s*)?(?:experience|exp)'
\* r'minimum\s*(?:of\s*)?(\d+)\s*(?:years?|yrs?)'
\* r'at\s*least\s*(\d+)\s*(?:years?|yrs?)'
exp_patterns ==
    <<<<Plus(Digits), Maybe({"+"}), Star(SpaceChars), Years, Star(SpaceChars),
        Optional(<<Word(<<"o", "f">>) \o <<Star(SpaceChars)>>>>),
        Either(<<Word(<<"e", "x", "p", "e", "r", "i", "e", "n", "c", "e">>), Word(<<"e", "x", "p">>)>>)>>,
      Word(<<"m", "i", "n", "i", "m", "u", "m">>)
          \o <<Star(SpaceChars), Optional(<<Word(<<"o", "f">>) \o <<Star(SpaceChars)>>>>),
               Plus(Digits), Star(SpaceChars), Years>>,
      Word(<<"a", "t">>) \o <<Star(SpaceChars)>> \o Word(<<"l", "e", "a", "s", "t">>)
          \o <<Star(SpaceChars), Plus(Digits), Star(SpaceChars), Years>>>>

\* education_keywords: each regular expression with keyword.replace('\\', '')
education_keywords ==
    <<[keyword |-> Word(<<"b", "a", "c", "h", "e", "l", "o", "r">>) \o <<Star({"'", "s"}), Star(SpaceChars), Optional(<<Word(<<"d", "e", "g", "r", "e", "e">>)>>)>>,
       label |-> <<"b", "a", "c", "h", "e", "l", "o", "r", "[", "'", "s", "]", "*", "s", "*", "(", "?", ":", "d", "e", "g", "r", "e", "e", ")", "?">>],
      [keyword |-> Word(<<"m", "a", "s", "t", "e", "r">>) \o <<Star({"'", "s"}), Star(SpaceChars), Optional(<<Word(<<"d", "e", "g", "r", "e", "e">>)>>)>>,
       label |-> <<"m", "a", "s", "t", "e", "r", "[", "'", "s", "]", "*", "s", "*", "(", "?", ":", "d", "e", "g", "r", "e", "e", ")", "?">>],
      [keyword |-> Word(<<"p", "h", "d">>),
       label |-> <<"p", "h", "d">>],
      [keyword |-> Word(<<"d", "o", "c", "t", "o", "r", "a", "t", "e">>),
       label |-> <<"d", "o", "c", "t", "o", "r", "a", "t", "e">>],
      [keyword |-> Word(<<"b", ".", "s">>) \o <<Maybe({"."})>>,
       label |-> <<"b", ".", "s", ".", "?">>],
      [keyword |-> Word(<<"b", ".", "a">>) \o <<Maybe({"."})>>,
       label |-> <<"b", ".", "a", ".", "?">>],
      [keyword |-> Word(<<"m", ".", "s">>) \o <<Maybe({"."})>>,
       label |-> <<"m", ".", "s", ".", "?">>],
      [keyword |-> Word(<<"m", ".", "a">>) \o <<Maybe({"."})>>,
       label |-> <<"m", ".", "a", ".", "?">>],
      [keyword |-> Word(<<"m", "b", "a">>),
       label |-> <<"m", "b", "a">>]>>

\* r'(?:aws|azure|google|microsoft|oracle|cisco)\s+certified[^\n.]*'
\* r'certified\s+[a-z\s]+(?:professional|associate|expert)'
\* r'certification\s+in\s+[a-z\s]+'
cert_patterns ==
    <<<<Either(<<Word(<<"a", "w", "s">>), Word(<<"a", "z", "u", "r", "e">>), Word(<<"g", "o", "o", "g", "l", "e">>),
                 Word(<<"m", "i", "c", "r", "o", "s", "o", "f", "t">>), Word(<<"o", "r", "a", "c", "l", "e">>), Word(<<"c", "i", "s", "c", "o">>)>>),
        Plus(SpaceChars)>> \o Word(<<"c", "e", "r", "t", "i", "f", "i", "e", "d">>)
          \o <<Star(TextChars \ {"\n", "."})>>,
      Word(<<"c", "e", "r", "t", "i", "f", "i", "e", "d">>) \o <<Plus(SpaceChars), Plus(LowerLetters \cup SpaceChars),
          Either(<<Word(<<"p", "r", "o", "f", "e", "s", "s", "i", "o", "n", "a", "l">>),
                   Word(<<"a", "s", "s", "o", "c", "i", "a", "t", "e">>), Word(<<"e", "x", "p", "e", "r", "t">>)>>)>>,
      Word(<<"c", "e", "r", "t", "i", "f", "i", "c", "a", "t", "i", "o", "n">>)
          \o <<Plus(SpaceChars)>> \o Word(<<"i", "n">>)
          \o <<Plus(SpaceChars), Plus(LowerLetters \cup SpaceChars)>>>>

job_type_keywords ==
    <<
      <<"f", "u", "l", "l", "-", "t", "i", "m", "e">>,
      <<"p", "a", "r", "t", "-", "t", "i", "m", "e">>,
      <<"c", "o", "n", "t", "r", "a", "c", "t">>, <<"r", "e", "m", "o", "t", "e">>,
      <<"o", "n", "-", "s", "i", "t", "e">>, <<"h", "y", "b", "r", "i", "d">>,
      <<"f", "r", "e", "e", "l", "a", "n", "c", "e">>,
      <<"t", "e", "m", "p", "o", "r", "a", "r", "y">>,
      <<"p", "e", "r", "m", "a", "n", "e", "n", "t">>>>

required_indicators ==
    <<
      <<"r", "e", "q", "u", "i", "r", "e", "d">>,
      <<"m", "u", "s", "t", " ", "h", "a", "v", "e">>,
      <<"e", "s", "s", "e", "n", "t", "i", "a", "l">>,
      <<"m", "a", "n", "d", "a", "t", "o", "r", "y">>,
      <<"m", "i", "n", "i", "m", "u", "m">>,
      <<"s", "h", "o", "u", "l", "d", " ", "h", "a", "v", "e">>>>

preferred_indicators ==
    <<
      <<"p", "r", "e", "f", "e", "r", "r", "e", "d">>,
      <<"n", "i", "c", "e", " ", "t", "o", " ", "h", "a", "v", "e">>,
      <<"b", "o", "n", "u", "s">>, <<"p", "l", "u", "s">>,
      <<"d", "e", "s", "i", "r", "e", "d">>,
      <<"w", "o", "u", "l", "d", " ", "b", "e", " ", "g", "r", "e", "a", "t">>>>

\* The digits of the capturing group (\d+) of a match: its first run of digits.
FirstDigits(match) ==
    LET first == CHOOSE i \in 1..Len(match) :
                     match[i] \in Digits /\ \A j \in 1..(i - 1) : match[j] \notin Digits
    IN SubSeq(match, first, first + RunLength(Digits, match, first, FALSE, -1) - 1)

RECURSIVE ExperienceYears(_, _)
\* for pattern in exp_patterns: for match in matches: append(f"{match} years")
ExperienceYears(patterns, text_lower) ==
    IF patterns = <<>> THEN <<>>
    ELSE LET matches == ReFindAll(Head(patterns), text_lower, FALSE)
         IN [i \in 1..Len(matches) |-> FirstDigits(matches[i]) \o <<" ", "y", "e", "a", "r", "s">>]
                \o ExperienceYears(Tail(patterns), text_lower)

\* for keyword in education_keywords: if re.search(keyword, text_lower): ...
EducationRequirements(text_lower) ==
    LET found == SelectSeq(education_keywords,
                           LAMBDA k : ReFindAll(k.keyword, text_lower, FALSE) # <<>>)
    IN [i \in 1..Len(found) |-> found[i].label]

\* for pattern in cert_patterns: certifications.extend(re.findall(pattern, text_lower))
Certifications(text_lower) ==
    Concat([p \in 1..Len(cert_patterns) |-> ReFindAll(cert_patterns[p], text_lower, FALSE)])

\* for keyword in job_type_keywords: if keyword in text_lower: ...
JobTypes(text_lower) ==
    SelectSeq(job_type_keywords, LAMBDA keyword : IsSubstring(keyword, text_lower))

RECURSIVE SplitAny(_, _)
\* re.split(r'[.!?]', text)
SplitAny(s, separators) ==
    IF \E i \in 1..Len(s) : s[i] \in separators
    THEN LET first == CHOOSE i \in 1..Len(s) :
                          s[i] \in separators /\ \A j \in 1..(i - 1) : s[j] \notin separators
         IN <<SubSeq(s, 1, first - 1)>> \o SplitAny(SubSeq(s, first + 1, Len(s)), separators)
    ELSE <<s>>

\* sentences = re.split(r'[.!?]', text)
Sentences(text) == SplitAny(text, {".", "!", "?"})

\* is_required, is_preferred
IsRequired(sentence) == HasKeyword(Strip(Lower(sentence)), required_indicators)
IsPreferred(sentence) == HasKeyword(Strip(Lower(sentence)), preferred_indicators)

\* The mutant of Bucket: the preferred indicators are looked at first.
BucketPreferredFirst(sentence) ==
    IF IsPreferred(sentence) THEN "preferred_skills" ELSE "required_skills"

\* if is_required: ... elif is_preferred: ... else: ... : the list the skills of
\* a sentence are added to
Bucket(sentence) ==
    IF IsRequired(sentence) THEN "required_skills"
    ELSE IF IsPreferred(sentence) THEN "preferred_skills"
    ELSE "required_skills"

RECURSIVE SentenceSkillsOfEachIndicator(_, _, _)
\* The mutant of SentenceSkills: "if is_preferred" in the place of "elif
\* is_preferred", so a sentence with both indicators fills both lists.
SentenceSkillsOfEachIndicator(sentences, env, bucket) ==
    IF sentences = <<>> THEN <<>>
    ELSE LET sentence == Head(sentences)
             chosen == IF bucket = "preferred_skills" THEN IsPreferred(sentence)
                       ELSE IsRequired(sentence) \/ ~IsPreferred(sentence)
             found == IF Strip(Lower(sentence)) # <<>> /\ chosen
                      THEN extract_skills(env.catalog, env.additional, env.soft,
                                          sentence).skills
                      ELSE <<>>
         IN found \o SentenceSkillsOfEachIndicator(Tail(sentences), env, bucket)

RECURSIVE SentenceSkills(_, _, _)
\* The loop over the sentences: what it adds to the list of the bucket, the
\* sentences that are empty once stripped left out.
SentenceSkills(sentences, env, bucket) ==
    IF sentences = <<>> THEN <<>>
    ELSE LET sentence == Head(sentences)
             found == IF Strip(Lower(sentence)) # <<>> /\ Bucket(sentence) = bucket
                      THEN extract_skills(env.catalog, env.additional, env.soft,
                                          sentence).skills
                      ELSE <<>>
         IN found \o SentenceSkills(Tail(sentences), env, bucket)

\* The element of a set that CHOOSE finds after k others.
Pick(S, k) ==
    LET RECURSIVE Skip(_, _)
        Skip(T, n) == IF n = 0 THEN CHOOSE x \in T : TRUE
                      ELSE Skip(T \ {CHOOSE x \in T : TRUE}, n - 1)
    IN Skip(S, k)

RECURSIVE ListOfSet(_, _)
\* list(set(...)): the elements without duplicates, in the order in which the
\* process iterates over the set, which its hash seed decides.
ListOfSet(S, seed) ==
    IF S = {} THEN <<>>
    ELSE LET first == Pick(S, seed % Cardinality(S))
         IN <<first>> \o ListOfSet(S \ {first}, seed \div Cardinality(S))

\* The mutant of Deduplicated: the list is returned as the scans filled it.
KeptAsFilled(list, env) == list

\* requirements[key] = list(set(requirements[key]))
Deduplicated(list, env) == ListOfSet(Range(list), env.seed)

\* extract_job_requirements(text); {} is the record without fields.
extract_job_requirements(env, text) ==
    IF text = None \/ text = <<>> THEN <<>>
    ELSE LET text_lower == Lower(text)
         IN [required_skills |->
                 Deduplicated(SentenceSkills(Sentences(text), env, "required_skills"), env),
             preferred_skills |->
                 Deduplicated(SentenceSkills(Sentences(text), env, "preferred_skills"), env),
             experience_years |-> Deduplicated(ExperienceYears(exp_patterns, text_lower), env),
             education_requirements |-> Deduplicated(EducationRequirements(text_lower), env),
             certifications |-> Deduplicated(Certifications(text_lower), env),
             job_type |-> Deduplicated(JobTypes(text_lower), env),
             location |-> <<>>]

\* The texts are made of these pieces.
ReqPieces ==
    {<<"s", "q", "l", " ">>,
     <<"g", "i", "t", " ">>,
     <<"r", "e", "q", "u", "i", "r", "e", "d", " ">>,
     <<"p", "r", "e", "f", "e", "r", "r", "e", "d", " ">>,
     <<".", " ">>}
MaxReqPieces == 4

\* The hash seeds of the processes: between them they give every order of a set of
\* two elements.
HashSeeds == {0, 1}

\* What a process fixes when it starts: the catalog, the iteration orders of the two
\* vocabulary sets and the hash seed.
Environments ==
    [catalog : {BaseCatalog}, additional : Orders(ADDITIONAL_SKILLS),
     soft : Orders(SOFT_SKILLS), seed : HashSeeds]

ReqStart ==
    /\ req_text \in {Concat(pieces) : pieces \in SeqsUpTo(ReqPieces, MaxReqPieces)} \cup {None}
    /\ req_env \in Environments
    /\ req_out = <<>>
    /\ req_pc = "start"

ReqIdle ==
    /\ req_text = None
    /\ req_env = [catalog |-> <<>>, additional |-> <<>>, soft |-> <<>>, seed |-> 0]
    /\ req_out = <<>>
    /\ req_pc = "idle"

\* requirements = extract_job_requirements(text)
ExtractJobRequirements ==
    /\ req_pc = "start"
    /\ req_out' = extract_job_requirements(req_env, req_text)
    /\ req_pc' = "done"
    /\ UNCHANGED <<req_text, req_env, notReq>>

\* The sentences of the text that are not empty once stripped.
ReqSentences ==
    SelectSeq(Sentences(req_text), LAMBDA sentence : Strip(Lower(sentence)) # <<>>)

\* The skills extract_skills finds in a sentence.
ReqSkills(sentence) ==
    Range(extract_skills(req_env.catalog, req_env.additional, req_env.soft, sentence).skills)

(***************************************************************************)
(* C19: the skills of each sentence that is not empty go to one list: to   *)
(* required_skills if the sentence has a required indicator (whether or    *)
(* not it has a preferred one), otherwise to preferred_skills if it has a  *)
(* preferred indicator, otherwise to required_skills.                      *)
(***************************************************************************)
RequirementBuckets ==
    req_pc = "done" /\ req_text # None /\ req_text # <<>> =>
        LET ToPreferred(sentence) == IsPreferred(sentence) /\ ~IsRequired(sentence)
        IN /\ Range(req_out.required_skills) =
                  UNION {ReqSkills(ReqSentences[i]) :
                            i \in {j \in 1..Len(ReqSentences) : ~ToPreferred(ReqSentences[j])}}
           /\ Range(req_out.preferred_skills) =
                  UNION {ReqSkills(ReqSentences[i]) :
                            i \in {j \in 1..Len(ReqSentences) : ToPreferred(ReqSentences[j])}}

\* The skill of a sentence with a required and a preferred indicator is in
\* required_skills alone.
RequirementBucketsWitness ==
    /\ req_pc = "done"
    /\ req_text = <<"s", "q", "l", " ", "r", "e", "q", "u", "i", "r", "e", "d", " ", "p", "r", "e", "f", "e", "r", "r", "e", "d", " ">>
    /\ req_out.required_skills = <<<<"s", "q", "l">>>>
    /\ req_out.preferred_skills = <<>>

\* The labels that are in both lists of skills.
ReqInBothLists == Range(req_out.required_skills) \cap Range(req_out.preferred_skills)

\* C30 as claimed: no skill label is in both required_skills and preferred_skills.
RequiredPreferredDisjoint ==
    req_pc = "done" /\ req_text # None /\ req_text # <<>> => ReqInBothLists = {}

\* C30, amended: the skills of one sentence go to one of the two lists, so a
\* label is in both only when two sentences yield it, one that counts as
\* required and one that counts as preferred.
RequiredPreferredOfTwoSentences ==
    req_pc = "done" /\ req_text # None /\ req_text # <<>> =>
        \A label \in ReqInBothLists :
            \E i, j \in 1..Len(ReqSentences) :
                /\ i # j
                /\ Bucket(ReqSentences[i]) = "required_skills"
                /\ Bucket(ReqSentences[j]) = "preferred_skills"
                /\ label \in ReqSkills(ReqSentences[i]) \cap ReqSkills(ReqSentences[j])

\* "sql . sql preferred": the first sentence has no indicator and the second a
\* preferred one, and sql is in both lists.
RequiredPreferredOfTwoSentencesWitness ==
    /\ req_pc = "done"
    /\ req_text = <<"s", "q", "l", " ", ".", " ", "s", "q", "l", " ",
                    "p", "r", "e", "f", "e", "r", "r", "e", "d", " ">>
    /\ req_out.required_skills = <<<<"s", "q", "l">>>>
    /\ req_out.preferred_skills = <<<<"s", "q", "l">>>>

\* The pieces of the texts in which one requirement is met more than once.
ListPieces ==
    {<<"m", "i", "n", "i", "m", "u", "m", " ", "o", "f", " ">>,
     <<"5", " ", "y", "e", "a", "r", "s", " ">>,
     <<"o", "f", " ", "e", "x", "p", "e", "r", "i", "e", "n", "c", "e", " ">>,
     <<"s", "q", "l", " ">>,
     <<".", " ">>}
MaxListPieces == 4

ReqListsStart ==
    /\ req_text \in {Concat(pieces) : pieces \in SeqsUpTo(ListPieces, MaxListPieces)} \cup {None}
    /\ req_env \in Environments
    /\ req_out = <<>>
    /\ req_pc = "start"

\* The lists of a JobRequirements.
RequirementLists ==
    {"required_skills", "preferred_skills", "experience_years", "education_requirements",
     "certifications", "job_type"}

\* The result has the six lists, and none of them holds a value twice.
ReqListsWithoutRepeat ==
    /\ RequirementLists \subseteq DOMAIN req_out
    /\ \A key \in RequirementLists : NoRepeat(req_out[key])

\* C23 as claimed: for every text the result has the six lists, and no list holds a
\* value twice.
RequirementListsOfEveryText ==
    req_pc = "done" => ReqListsWithoutRepeat

\* C23, amended: for every text that is not empty the result has the six lists,
\* and no list holds a value twice; for an empty or absent text the result is the
\* empty mapping, without any list.
RequirementListsDeduplicated ==
    req_pc = "done" =>
        IF req_text = None \/ req_text = <<>> THEN DOMAIN req_out = {}
        ELSE ReqListsWithoutRepeat

\* "minimum of 5 years of experience" is met by two of the three phrasings and
\* the result lists "5 years" once.
RequirementListsDeduplicatedWitness ==
    /\ req_pc = "done"
    /\ req_text = <<"m", "i", "n", "i", "m", "u", "m", " ", "o", "f", " ",
                    "5", " ", "y", "e", "a", "r", "s", " ",
                    "o", "f", " ", "e", "x", "p", "e", "r", "i", "e", "n", "c", "e", " ">>
    /\ Len(ExperienceYears(exp_patterns, req_text)) = 2
    /\ req_out.experience_years = <<<<"5", " ", "y", "e", "a", "r", "s">>>>

(***************************************************************************)
(* Sequences of calls.  The module's globals are SKILL_PATTERNS,           *)
(* ADDITIONAL_SKILLS and SOFT_SKILLS (with the process's iteration orders  *)
(* and hash seed); the arguments are objects of the caller, of which the   *)
(* lists could be changed by a callee.  A call gives back what it returns  *)
(* and leaves the globals and the arguments as its code leaves them.       *)
(***************************************************************************)

preprocess_text_call(env, args) ==
    [env |-> env, args |-> args, returns |-> preprocess_text(args.text)]

extract_skills_call(env, args) ==
    [env |-> env, args |-> args,
     returns |-> extract_skills(env.catalog, env.additional, env.soft, args.text).skills]

extract_entities_call(env, args) ==
    [env |-> env, args |-> args, returns |-> extract_entities(args.text)]

extract_job_requirements_call(env, args) ==
    [env |-> env, args |-> args, returns |-> extract_job_requirements(env, args.text)]

calculate_similarity_call(env, args) ==
    [env |-> env, args |-> args,
     returns |-> calculate_similarity(args.job_description, args.resume_text, args.job_skills,
                                      args.resume_skills, args.cosine).score]

\* The mutant of rank_resumes_call: resumes_data.sort(...) in place of sorted(...).
rank_resumes_call_in_place(env, args) ==
    [env |-> env, args |-> [args EXCEPT !.resumes_data = rank_resumes(@)],
     returns |-> rank_resumes(args.resumes_data)]

\* sorted() builds a new list and leaves resumes_data as it is.
rank_resumes_call(env, args) ==
    [env |-> env, args |-> args, returns |-> rank_resumes(args.resumes_data)]

get_top_keywords_call(env, args) ==
    [env |-> env, args |-> args,
     returns |-> get_top_keywords(args.resumes_data, args.job_skills, args.top_n)]

Functions ==
    {"preprocess_text", "extract_skills", "extract_entities", "extract_job_requirements",
     "calculate_similarity", "rank_resumes", "get_top_keywords"}

MaxCalls == 2

\* The arguments of the calls; cosine is what the TF-IDF computation gives for
\* the two texts.
CallArguments ==
    {args \in [text : {<<"S", "Q", "L", " ", "g", "i", "t", " ", "r", "e", "q", "u", "i", "r", "e", "d", ".", " ", "c", "i", "/", "c", "d">>,
                       <<"A", "l", " ", "I", "n", "c", "\n", "A", "L", " ", "I", "N", "C">>},
               job_description : {<<"python", "sql">>},
               resume_text : {<<"python">>},
               job_skills : {<<"python", "sql">>},
               resume_skills : {<<"sql", "java">>},
               resumes_data : {<<[filename |-> 1, skills |-> <<"sql">>, similarity_score |-> 1],
                                 [filename |-> 2, skills |-> <<"python", "sql">>,
                                  similarity_score |-> 2]>>,
                               <<[filename |-> 1, skills |-> <<"java">>, similarity_score |-> 3]>>},
               top_n : {1},
               cosine : 0..CosScale] :
        args.cosine \in CosineValues(args.job_description, args.resume_text)}

CallStart ==
    /\ mod_env \in Environments
    /\ call_args \in CallArguments
    /\ call_startup = [env |-> mod_env, args |-> call_args]
    /\ call_log = <<>>

CallIdle ==
    /\ mod_env = [catalog |-> <<>>, additional |-> <<>>, soft |-> <<>>, seed |-> 0]
    /\ call_args = <<>>
    /\ call_startup = <<>>
    /\ call_log = <<>>

\* One call of a function, with what it does to the globals and the arguments.
Call(function, effect) ==
    /\ call_startup # <<>>
    /\ Len(call_log) < MaxCalls
    /\ mod_env' = effect.env
    /\ call_args' = effect.args
    /\ call_log' = Append(call_log, [function |-> function, returns |-> effect.returns])
    /\ UNCHANGED <<call_startup, notCall>>

CallPreprocessText == Call("preprocess_text", preprocess_text_call(mod_env, call_args))
CallExtractSkills == Call("extract_skills", extract_skills_call(mod_env, call_args))
CallExtractEntities == Call("extract_entities", extract_entities_call(mod_env, call_args))
CallExtractJobRequirements ==
    Call("extract_job_requirements", extract_job_requirements_call(mod_env, call_args))
CallCalculateSimilarity ==
    Call("calculate_similarity", calculate_similarity_call(mod_env, call_args))
CallRankResumes == Call("rank_resumes", rank_resumes_call(mod_env, call_args))
CallGetTopKeywords == Call("get_top_keywords", get_top_keywords_call(mod_env, call_args))

CallsNext ==
    \/ CallPreprocessText
    \/ CallExtractSkills
    \/ CallExtractEntities
    \/ CallExtractJobRequirements
    \/ CallCalculateSimilarity
    \/ CallRankResumes
    \/ CallGetTopKeywords

NoJobId == 0

\* An entry of st.session_state is None or a value: the empty set stands for None
\* and {v} for the value v, so that the two can be told apart whatever v is.
Unset == {}
Stored(v) == {v}
Value(entry) == CHOOSE v \in entry : TRUE

\* The truth value Python gives an entry that is None or a list.
Truthy(entry) == entry # Unset /\ Value(entry) # <<>>

\* st.file_uploader(type=["pdf", "docx"]) lets no other extension through.
UploadKinds ==
    {[ext |-> ".pdf", extraction |-> "raises", text |-> <<>>, skills |-> <<>>],
     [ext |-> ".docx", extraction |-> "raises", text |-> <<>>, skills |-> <<>>],
     [ext |-> ".pdf", extraction |-> "text", text |-> <<"python", "sql">>,
      skills |-> <<"python", "sql">>],
     [ext |-> ".docx", extraction |-> "text", text |-> <<"python">>,
      skills |-> <<"python">>],
     [ext |-> ".pdf", extraction |-> "text", text |-> <<"the">>, skills |-> <<>>]}

JobDescriptions ==
    {[text |-> <<"python", "sql">>, skills |-> <<"python", "sql">>],
     [text |-> <<"the">>, skills |-> <<>>]}

MaxFiles == 3

\* The upload of kind k in place i of the uploader's list.
Upload(i, k) ==
    [name |-> i, ext |-> k.ext, extraction |-> k.extraction, text |-> k.text,
     skills |-> k.skills]

\* How the two saves of one resume can end.
SaveOutcomes == {"saved", "save_resume raises", "save_analysis_result raises"}

AppStart ==
    /\ uploaded_files \in {[i \in 1..Len(kinds) |-> Upload(i, kinds[i])] :
                              kinds \in SeqsUpTo(UploadKinds, MaxFiles) \ {<<>>}}
    /\ app_job_description \in JobDescriptions
    /\ app_pc = "ready"
    /\ file_index = 0
    /\ app_resumes_data = <<>>
    /\ job_id = NoJobId
    /\ st_errors = <<>>
    /\ temp_files = [created |-> {}, existing |-> {}, unlinked |-> <<>>]
    /\ db_rows = <<>>
    /\ db_calls = <<>>
    /\ session_state = [processed_resumes |-> Unset, job_skills |-> Unset,
                        job_requirements |-> Unset, ranked_resumes |-> Unset]
    /\ min_skill_match = 50
    /\ app_top_n = 5
    /\ shown_resumes = <<>>

AppIdle ==
    /\ uploaded_files = <<>>
    /\ app_job_description = [text |-> <<>>, skills |-> <<>>]
    /\ app_pc = "idle"
    /\ file_index = 0
    /\ app_resumes_data = <<>>
    /\ job_id = NoJobId
    /\ st_errors = <<>>
    /\ temp_files = [created |-> {}, existing |-> {}, unlinked |-> <<>>]
    /\ db_rows = <<>>
    /\ db_calls = <<>>
    /\ session_state = [processed_resumes |-> Unset, job_skills |-> Unset,
                        job_requirements |-> Unset, ranked_resumes |-> Unset]
    /\ min_skill_match = 50
    /\ app_top_n = 5
    /\ shown_resumes = <<>>

\* "if process_button and uploaded_files and job_description:" up to the loop: the
\* job description is processed, its skills go to the session state, and it is
\* saved, job_id staying None when the save raises.
Analyze ==
    /\ app_pc = "ready"
    /\ uploaded_files # <<>>
    /\ app_job_description.text # <<>>
    /\ app_resumes_data' = <<>>
    /\ session_state' = [session_state EXCEPT
                            !.job_skills = Stored(app_job_description.skills),
                            !.job_requirements =
                                Stored([required_skills |->
                                            Range(app_job_description.skills)])]
    /\ \E saved \in BOOLEAN :
           IF saved
           THEN /\ job_id' = 1
                /\ db_rows' = Append(db_rows, [table |-> "job_descriptions", name |-> 0])
           ELSE /\ job_id' = NoJobId
                /\ UNCHANGED db_rows
    /\ db_calls' = Append(db_calls, [function |-> "save_job_description", name |-> 0])
    /\ file_index' = 1
    /\ app_pc' = "loop"
    /\ UNCHANGED <<uploaded_files, app_job_description, st_errors, temp_files, showVars, notApp>>

\* The mutant of OnProcessingError: no except clause around the processing of a
\* file, so its exception leaves the loop.
OnProcessingErrorUncaught(errors, uploaded_file) ==
    [propagates |-> TRUE, errors |-> errors]

\* except Exception as e: st.error(f"Error processing {uploaded_file.name}: ...")
OnProcessingError(errors, uploaded_file) ==
    [propagates |-> FALSE,
     errors |-> Append(errors, [kind |-> "item", name |-> uploaded_file.name])]

\* The mutant of match_percentage: the product rounded to the nearest integer.
match_percentage_rounded(similarity_score, unit) ==
    (2 * similarity_score * 100 + unit) \div (2 * unit)

\* int(similarity_score * 100), for a score of similarity_score / unit: int drops
\* the fraction of a float that is not negative.
match_percentage(similarity_score, unit) == (similarity_score * 100) \div unit

\* The scores of the step are the multiples of 1 / ScoreSteps.
ScoreSteps == 200

\* The scores calculate_similarity returns: 0.6 * ratio + 0.4 * cosine takes every
\* value from 0.0 to 1.0, and for two equal texts a value above 1.0 by a rounding
\* error (C3), for which ScoreSteps + 1 stands.
PctStart ==
    /\ pct_score \in 0..(ScoreSteps + 1)
    /\ pct_out = 0
    /\ pct_pc = "start"

PctIdle ==
    /\ pct_score = 0
    /\ pct_out = 0
    /\ pct_pc = "idle"

\* 'match_percentage': int(similarity_score * 100)
MatchPercentage ==
    /\ pct_pc = "start"
    /\ pct_out' = match_percentage(pct_score, ScoreSteps)
    /\ pct_pc' = "done"
    /\ UNCHANGED <<pct_score, notPct>>

\* C16: the match_percentage of a record is the integer floor(similarity_score x
\* 100), and so an integer from 0 to 100.
PercentageIsFloor ==
    pct_pc = "done" =>
        /\ pct_out \in 0..100
        /\ pct_out * ScoreSteps <= pct_score * 100
        /\ pct_score * 100 < (pct_out + 1) * ScoreSteps

\* The score 0.295 has been turned into 29.
PercentageIsFloorWitness ==
    /\ pct_pc = "done"
    /\ 1000 * pct_score = 295 * ScoreSteps
    /\ pct_out = 29

\* The mutant of matching_skills: the skills of the resume, the job's or not.
matching_skills_of_resume(job_skills, resume_skills) == Range(resume_skills)

\* matching_skills = list(set(job_skills) & set(resume_skills))
matching_skills(job_skills, resume_skills) == Range(job_skills) \cap Range(resume_skills)

\* The record appended to resumes_data for an upload whose text was extracted.
ResumeRecord(uploaded_file, job_skills, similarity_score) ==
    [filename |-> uploaded_file.name,
     skills |-> uploaded_file.skills,
     matching_skills |-> matching_skills(job_skills, uploaded_file.skills),
     similarity_score |-> similarity_score,
     match_percentage |-> match_percentage(similarity_score, ScoreUnit)]

\* The rows the two saves of one resume leave in the database.
SavedRows(rows, uploaded_file, outcome) ==
    IF outcome = "save_resume raises" THEN rows
    ELSE IF outcome = "save_analysis_result raises"
    THEN Append(rows, [table |-> "resumes", name |-> uploaded_file.name])
    ELSE rows \o <<[table |-> "resumes", name |-> uploaded_file.name],
                   [table |-> "analysis_results", name |-> uploaded_file.name]>>

\* The calls of the save functions for one resume: save_analysis_result is called
\* once save_resume has returned.
SaveCalls(calls, uploaded_file, outcome) ==
    IF outcome = "save_resume raises"
    THEN Append(calls, [function |-> "save_resume", name |-> uploaded_file.name])
    ELSE calls \o <<[function |-> "save_resume", name |-> uploaded_file.name],
                    [function |-> "save_analysis_result", name |-> uploaded_file.name]>>

\* The mutant of OnSaveError: no try around the two saves, so their exception is
\* caught as one of the processing and shown by st.error.
OnSaveErrorShown(errors, uploaded_file) ==
    Append(errors, [kind |-> "item", name |-> uploaded_file.name])

\* except Exception as e: logger.error(f"Failed to save resume or analysis: ...")
OnSaveError(errors, uploaded_file) == errors

\* The mutant of resumes_data_append: the record put in front of the list.
resumes_data_insert_first(resumes_data, record) == <<record>> \o resumes_data

\* resumes_data.append({...})
resumes_data_append(resumes_data, record) == Append(resumes_data, record)

\* with tempfile.NamedTemporaryFile(delete=False, suffix=file_extension) as
\* temp_file: a file under a name that no file had before.
NamedTemporaryFile(files) ==
    LET temp_file_path == Cardinality(files.created) + 1
    IN [files EXCEPT !.created = @ \cup {temp_file_path},
                     !.existing = @ \cup {temp_file_path}]

\* temp_file_path = temp_file.name
LastTemporaryFile(files) == Cardinality(files.created)

\* os.unlink(temp_file_path)
unlink(files, temp_file_path) ==
    [files EXCEPT !.existing = @ \ {temp_file_path},
                  !.unlinked = Append(@, temp_file_path)]

\* The ways one pass of the loop leaves the try block.
PassOutcomes == {"continue", "raised", "appended"}

\* The mutant of finally_unlink: the unlink is the last statement of the try
\* block, which a continue or an exception leaves before it.
unlink_at_end_of_try(files, temp_file_path, outcome) ==
    IF outcome = "appended" THEN unlink(files, temp_file_path) ELSE files

\* finally: os.unlink(temp_file_path), however the try block was left
finally_unlink(files, temp_file_path, outcome) == unlink(files, temp_file_path)

\* One pass of "for uploaded_file in uploaded_files": the temporary file is
\* written, the text extracted and scored and the record appended and saved,
\* or the exception shown by st.error; the finally clause unlinks the file.
ProcessFile ==
    /\ app_pc = "loop"
    /\ file_index <= Len(uploaded_files)
    /\ LET uploaded_file == uploaded_files[file_index]
           supported == uploaded_file.ext \in {".pdf", ".docx"}
       IN \E cosine \in CosineValues(app_job_description.text, uploaded_file.text),
             outcome \in SaveOutcomes :
              LET similarity == calculate_similarity(app_job_description.text,
                                    uploaded_file.text, app_job_description.skills,
                                    uploaded_file.skills, cosine)
                  raised == supported /\ (uploaded_file.extraction = "raises"
                                              \/ similarity.raised)
                  handled == OnProcessingError(st_errors, uploaded_file)
                  written == NamedTemporaryFile(temp_files)
                  left == IF ~supported THEN "continue"
                          ELSE IF raised THEN "raised" ELSE "appended"
              IN /\ temp_files' = finally_unlink(written, LastTemporaryFile(written), left)
                 /\ IF ~supported
                    THEN UNCHANGED <<app_resumes_data, db_rows, db_calls, st_errors>>
                    ELSE IF raised
                    THEN /\ st_errors' = handled.errors
                         /\ UNCHANGED <<app_resumes_data, db_rows, db_calls>>
                    ELSE /\ app_resumes_data' =
                                resumes_data_append(app_resumes_data,
                                    ResumeRecord(uploaded_file, app_job_description.skills,
                                                 similarity.score))
                         /\ IF job_id # NoJobId
                            THEN /\ db_rows' = SavedRows(db_rows, uploaded_file, outcome)
                                 /\ db_calls' = SaveCalls(db_calls, uploaded_file, outcome)
                                 /\ st_errors' = IF outcome = "saved" THEN st_errors
                                                 ELSE OnSaveError(st_errors, uploaded_file)
                            ELSE UNCHANGED <<db_rows, db_calls, st_errors>>
                 /\ IF raised /\ handled.propagates
                    THEN app_pc' = "crashed" /\ UNCHANGED file_index
                    ELSE /\ file_index' = file_index + 1
                         /\ app_pc' = IF file_index = Len(uploaded_files)
                                      THEN "finish" ELSE "loop"
    /\ UNCHANGED <<uploaded_files, app_job_description, job_id, session_state, showVars, notApp>>

\* After the loop: "if not resumes_data: st.error(...)", else the batch is ranked
\* and stored in the session state.
FinishBatch ==
    /\ app_pc = "finish"
    /\ IF app_resumes_data = <<>>
       THEN /\ st_errors' = Append(st_errors, [kind |-> "batch", name |-> 0])
            /\ UNCHANGED session_state
       ELSE /\ session_state' = [session_state EXCEPT
                                    !.processed_resumes = Stored(app_resumes_data),
                                    !.ranked_resumes = Stored(rank_resumes(app_resumes_data))]
            /\ UNCHANGED st_errors
    /\ app_pc' = "done"
    /\ UNCHANGED <<uploaded_files, app_job_description, file_index, app_resumes_data, job_id,
                   temp_files, db_rows, db_calls, showVars, notApp>>

\* The values the runs set the slider "Top Candidates" (1 to 20) to.
TopNLevels == {1, 2}

\* The values the runs set the slider "Min Match %" (0 to 100) to.
MinMatchLevels == {0, 50}

\* The mutant of candidates_shown: a candidate at the minimum itself filtered out.
candidates_above_minimum(ranked_resumes, min_match, n) ==
    LET filtered_resumes ==
            SelectSeq(ranked_resumes, LAMBDA r : r.match_percentage > min_match)
    IN SubSeq(filtered_resumes, 1,
              IF n < Len(filtered_resumes) THEN n ELSE Len(filtered_resumes))

\* filtered_resumes[:top_n], filtered_resumes being the ranked resumes with
\* r['match_percentage'] >= min_skill_match
candidates_shown(ranked_resumes, min_match, n) ==
    LET filtered_resumes ==
            SelectSeq(ranked_resumes, LAMBDA r : r.match_percentage >= min_match)
    IN SubSeq(filtered_resumes, 1,
              IF n < Len(filtered_resumes) THEN n ELSE Len(filtered_resumes))

\* The run of the script that follows the batch, with the sliders at some values:
\* "if st.session_state.ranked_resumes:" the results section filters the ranked
\* resumes and shows the first top_n of them.
Display ==
    /\ app_pc = "done"
    /\ Truthy(session_state.ranked_resumes)
    /\ \E slider_match \in MinMatchLevels, slider_top \in TopNLevels :
           /\ min_skill_match' = slider_match
           /\ app_top_n' = slider_top
           /\ shown_resumes' = candidates_shown(Value(session_state.ranked_resumes),
                                                slider_match, slider_top)
    /\ app_pc' = "shown"
    /\ UNCHANGED <<uploaded_files, app_job_description, file_index, app_resumes_data, job_id,
                   st_errors, temp_files, db_rows, db_calls, session_state, notApp>>

AppNext == Analyze \/ ProcessFile \/ FinishBatch \/ Display

\* The uploads on which the parser raises, and those whose text it returns.
AppFailing == SelectSeq(uploaded_files, LAMBDA f : f.extraction = "raises")
AppExtracted == SelectSeq(uploaded_files, LAMBDA f : f.extraction = "text")

\* The messages st.error has shown for single files.
AppItemErrors == SelectSeq(st_errors, LAMBDA e : e.kind = "item")

\* C2: no exception leaves the batch; when it is over every upload has been
\* processed, the results are exactly the uploads whose text was extracted (n - k
\* of them), and one failure is recorded for each of the k others, naming it.
BatchPartialFailure ==
    /\ app_pc # "crashed"
    /\ app_pc = "done" =>
           /\ file_index = Len(uploaded_files) + 1
           /\ [i \in 1..Len(app_resumes_data) |-> app_resumes_data[i].filename]
                  = [i \in 1..Len(AppExtracted) |-> AppExtracted[i].name]
           /\ Len(app_resumes_data) = Len(uploaded_files) - Len(AppFailing)
           /\ [i \in 1..Len(AppItemErrors) |-> AppItemErrors[i].name]
                  = [i \in 1..Len(AppFailing) |-> AppFailing[i].name]

\* A batch of three uploads whose second made the parser raise is over, with two
\* results and one recorded failure.
BatchPartialFailureWitness ==
    /\ app_pc = "done"
    /\ Len(uploaded_files) = 3
    /\ [i \in 1..3 |-> uploaded_files[i].extraction] = <<"text", "raises", "text">>
    /\ [i \in 1..Len(app_resumes_data) |-> app_resumes_data[i].filename] = <<1, 3>>
    /\ AppItemErrors = <<[kind |-> "item", name |-> 2]>>

\* The ranked list the session holds.
AppRanked == Value(session_state.ranked_resumes)

\* The places in the ranked list of the candidates that pass the filter.
AppPassing ==
    {j \in 1..Len(AppRanked) :
        AppRanked[j].match_percentage >= min_skill_match}

\* C12: whatever the two sliders are set to, the ranked list is the ranking of the
\* batch, untouched, and the candidates shown are the first top_n of the ranked
\* candidates with match_percentage >= the minimum: each is a record of the
\* ranked list, score included, they come in ranked order, no passing candidate
\* ranked above a shown one is left out, and there are min(top_n, passing) of them.
FilterAndCutAfterRanking ==
    app_pc = "shown" =>
        /\ session_state.ranked_resumes = Stored(rank_resumes(app_resumes_data))
        /\ session_state.processed_resumes = Stored(app_resumes_data)
        /\ Len(shown_resumes) = IF app_top_n < Cardinality(AppPassing)
                                THEN app_top_n ELSE Cardinality(AppPassing)
        /\ \E place \in [1..Len(shown_resumes) -> AppPassing] :
               /\ \A k \in 1..Len(shown_resumes) :
                      /\ shown_resumes[k] = AppRanked[place[k]]
                      /\ \A j \in AppPassing :
                             j < place[k] => \E h \in 1..(k - 1) : place[h] = j
               /\ \A h, k \in 1..Len(shown_resumes) : h < k => place[h] < place[k]

\* Three candidates are ranked, two of them reach the minimum of 50, the second
\* with exactly 50, and top_n is 1: the first alone is shown.
FilterAndCutAfterRankingWitness ==
    /\ app_pc = "shown"
    /\ Len(AppRanked) = 3
    /\ min_skill_match = 50
    /\ app_top_n = 1
    /\ AppPassing = {1, 2}
    /\ AppRanked[2].match_percentage = 50
    /\ shown_resumes = <<AppRanked[1]>>

\* The names of the records of a list, in its order.
Filenames(resumes_data) == [i \in 1..Len(resumes_data) |-> resumes_data[i].filename]

\* C25: the records of a batch are those of its successful uploads in upload
\* order, whatever failed between them, and two ranked candidates of equal
\* similarity score stand in the order in which they were uploaded.
TiesInUploadOrder ==
    /\ \A i, j \in 1..Len(app_resumes_data) :
           i < j => app_resumes_data[i].filename < app_resumes_data[j].filename
    /\ (app_pc = "done" /\ Truthy(session_state.ranked_resumes)) =>
           \A i, j \in 1..Len(AppRanked) :
               (i < j /\ AppRanked[i].similarity_score = AppRanked[j].similarity_score)
                   => AppRanked[i].filename < AppRanked[j].filename

\* The second of three uploads failed and the scores of the other two are equal:
\* the ranked list is the first, then the third.
TiesInUploadOrderWitness ==
    /\ app_pc = "done"
    /\ Len(uploaded_files) = 3
    /\ uploaded_files[2].extraction = "raises"
    /\ Filenames(app_resumes_data) = <<1, 3>>
    /\ Truthy(session_state.ranked_resumes)
    /\ Filenames(AppRanked) = <<1, 3>>
    /\ AppRanked[1].similarity_score = AppRanked[2].similarity_score

\* The places in a ranked list of the candidates that reach a minimum.
Passing(ranked_resumes, min_match) ==
    {j \in 1..Len(ranked_resumes) : ranked_resumes[j].match_percentage >= min_match}

\* C26: for every value of the minimum the candidates that pass are the first ones
\* of the ranked list, and the candidate shown under the number k is the
\* candidate ranked k.  (The minimum runs over the values of the slider in the
\* model and the percentages of the candidates: any other value lets the same
\* candidates pass as the next percentage above it, or none.)
PassingIsPrefix ==
    /\ (app_pc = "done" /\ Truthy(session_state.ranked_resumes)) =>
           LET ranked_resumes == AppRanked
           IN \A min_match \in MinMatchLevels
                                \cup {ranked_resumes[j].match_percentage :
                                         j \in 1..Len(ranked_resumes)} :
                  LET passing == Passing(ranked_resumes, min_match)
                  IN passing = 1..Cardinality(passing)
    /\ app_pc = "shown" =>
           \A k \in 1..Len(shown_resumes) : shown_resumes[k] = AppRanked[k]

\* The upload order was not the ranked order, two of three candidates pass the
\* minimum of 50 and both are shown, under their ranks.
PassingIsPrefixWitness ==
    /\ app_pc = "shown"
    /\ Filenames(app_resumes_data) = <<1, 2, 3>>
    /\ Filenames(AppRanked) = <<3, 2, 1>>
    /\ min_skill_match = 50
    /\ AppPassing = {1, 2}
    /\ shown_resumes = <<AppRanked[1], AppRanked[2]>>

\* The uploads the loop has been through.
AppProcessed ==
    IF file_index = 0 THEN <<>> ELSE SubSeq(uploaded_files, 1, file_index - 1)

\* The records an upload can get for the job description, one for each value the
\* lexical similarity of the two texts can take.
AppRecords(uploaded_file) ==
    {ResumeRecord(uploaded_file, app_job_description.skills,
                  calculate_similarity(app_job_description.text, uploaded_file.text,
                                       app_job_description.skills, uploaded_file.skills,
                                       cosine).score) :
        cosine \in CosineValues(app_job_description.text, uploaded_file.text)}

\* The calls of save_resume and save_analysis_result.
AppResumeSaves == SelectSeq(db_calls, LAMBDA call : call.function # "save_job_description")

\* C28: whichever saves fail, at the end of the batch the records are those of
\* the uploads whose text was extracted, as they are computed from the texts
\* alone, none of these uploads is reported as failed, the ranked list is the
\* ranking of these records, and when save_job_description failed neither
\* save_resume nor save_analysis_result is called (when it did not, save_resume
\* is called for every record).
SavesLeaveBatchAlone ==
    app_pc = "done" =>
    LET extracted == SelectSeq(AppProcessed, LAMBDA f : f.extraction = "text")
        failing == SelectSeq(AppProcessed, LAMBDA f : f.extraction = "raises")
    IN /\ Filenames(app_resumes_data) = [i \in 1..Len(extracted) |-> extracted[i].name]
       /\ \A i \in 1..Len(app_resumes_data) :
              app_resumes_data[i] \in AppRecords(uploaded_files[app_resumes_data[i].filename])
       /\ [i \in 1..Len(AppItemErrors) |-> AppItemErrors[i].name]
              = [i \in 1..Len(failing) |-> failing[i].name]
       /\ app_resumes_data # <<>> =>
              session_state.ranked_resumes = Stored(rank_resumes(app_resumes_data))
       /\ job_id = NoJobId => AppResumeSaves = <<>>
       /\ job_id # NoJobId =>
              LET saves == SelectSeq(AppResumeSaves,
                                     LAMBDA call : call.function = "save_resume")
              IN [i \in 1..Len(saves) |-> saves[i].name] = Filenames(app_resumes_data)

\* The job description was saved, save_resume failed for the first of two resumes
\* and save_analysis_result for the second: both have their record, both are
\* ranked and no failure is shown.
SavesLeaveBatchAloneWitness ==
    /\ app_pc = "done"
    /\ job_id # NoJobId
    /\ Filenames(app_resumes_data) = <<1, 2>>
    /\ db_calls = <<[function |-> "save_job_description", name |-> 0],
                    [function |-> "save_resume", name |-> 1],
                    [function |-> "save_resume", name |-> 2],
                    [function |-> "save_analysis_result", name |-> 2]>>
    /\ db_rows = <<[table |-> "job_descriptions", name |-> 0],
                   [table |-> "resumes", name |-> 2]>>
    /\ st_errors = <<>>
    /\ Len(AppRanked) = 2

\* C29: at the end of the batch the matching_skills of a record are the labels that are both in the job
\* skill list and in the resume's skill list, and their number over the number of
\* job skills (0 for a job without skills) is the ratio in the record's score.
MatchingSkillsAreTheRatio ==
    app_pc = "done" => \A i \in 1..Len(app_resumes_data) :
        LET record == app_resumes_data[i]
            job_skills == app_job_description.skills
            uploaded_file == uploaded_files[record.filename]
            ratio == [num |-> Cardinality(record.matching_skills),
                      den |-> IF job_skills = <<>> THEN 1 ELSE Len(job_skills)]
        IN /\ record.matching_skills
                  = {label \in Range(job_skills) : label \in Range(record.skills)}
           /\ record.matching_skills \subseteq Range(record.skills)
           /\ record.matching_skills \subseteq Range(job_skills)
           /\ \E cosine \in CosineValues(app_job_description.text, uploaded_file.text) :
                  record.similarity_score = combined_score(ratio, cosine)

\* A resume with one of the two job skills has it as its matching skill, and the
\* score 0.6 * 1/2 + 0.4 * 0.5.
MatchingSkillsAreTheRatioWitness ==
    /\ app_pc = "done"
    /\ app_job_description.skills = <<"python", "sql">>
    /\ \E i \in 1..Len(app_resumes_data) :
           /\ app_resumes_data[i].skills = <<"python">>
           /\ app_resumes_data[i].matching_skills = {"python"}
           /\ 2 * app_resumes_data[i].similarity_score = ScoreUnit

(***************************************************************************)
(* app.py: the entity steps of the batch.  The job description and each    *)
(* resume are normalised first, and extract_entities is handed the         *)
(* normalised text.                                                        *)
(***************************************************************************)

\* os.path.splitext(name)[0]: the name up to its last dot, a leading dot apart.
SplitExtRoot(name) ==
    LET dots == {i \in 2..Len(name) : name[i] = "."}
    IN IF dots = {} THEN name
       ELSE SubSeq(name, 1, (CHOOSE i \in dots : \A j \in dots : j <= i) - 1)

\* preprocessed_text = preprocess_text(resume_text)
\* resume_entities = extract_entities(preprocessed_text)
ResumeEntitiesOf(resume_text) == extract_entities(preprocess_text(resume_text))

\* candidate_name: the text of the first PERSON entity, or else the name of the
\* upload without its extension.
candidate_name(resume_entities, filename) ==
    LET persons == SelectSeq(resume_entities, LAMBDA entity : entity[2] = "PERSON")
    IN IF persons # <<>> /\ persons[1][1] # <<>> THEN persons[1][1]
       ELSE SplitExtRoot(filename)

\* The names of the uploads.
UploadNames == {<<"c", "v", ".", "p", "d", "f">>, <<"a", ".", "b", ".", "d", "o", "c", "x">>}

CandStart ==
    /\ cand_file \in UploadNames
    /\ cand_text \in {JoinLines(lines) : lines \in SeqsUpTo(EntityLines, MaxLines)}
    /\ cand_out = [entities |-> <<>>, candidate_name |-> None]
    /\ cand_pc = "start"

CandIdle ==
    /\ cand_file = <<>>
    /\ cand_text = <<>>
    /\ cand_out = [entities |-> <<>>, candidate_name |-> None]
    /\ cand_pc = "idle"

\* The steps of one pass of the loop from preprocess_text to candidate_name.
ResumeEntities ==
    /\ cand_pc = "start"
    /\ cand_out' = [entities |-> ResumeEntitiesOf(cand_text),
                    candidate_name |-> candidate_name(ResumeEntitiesOf(cand_text), cand_file)]
    /\ cand_pc' = "done"
    /\ UNCHANGED <<cand_file, cand_text, notCand>>

\* C21: entity extraction runs on the raw text of the resume: the entities of the
\* pass are those of the text as the parser returned it, line breaks and casing
\* included, and the candidate name is its first PERSON entity (the name of the
\* upload without its extension when it has none).
EntitiesOfRawText ==
    cand_pc = "done" =>
        /\ cand_out.entities = extract_entities(cand_text)
        /\ cand_out.candidate_name = candidate_name(extract_entities(cand_text), cand_file)


(***************************************************************************)
(* app.py: a session.  Streamlit runs the script again on every            *)
(* interaction and st.session_state lives on from run to run; a run in     *)
(* which "Analyze Resumes" was pressed goes through the batch and then     *)
(* through the results section.                                            *)
(***************************************************************************)

\* An upload with an extension that is neither .pdf nor .docx, for which the loop
\* has its "continue", beside one that is parsed and one on which the parser raises.
SessionKinds ==
    {[ext |-> ".pdf", extraction |-> "text", text |-> <<"python", "sql">>,
      skills |-> <<"python", "sql">>],
     [ext |-> ".pdf", extraction |-> "raises", text |-> <<>>, skills |-> <<>>],
     [ext |-> ".txt", extraction |-> "none", text |-> <<>>, skills |-> <<>>]}

\* The batches of the runs of a session: one upload or two.
SessionBatches ==
    {<<Upload(1, k)>> : k \in SessionKinds}
        \cup {<<Upload(1, k[1]), Upload(2, k[2])>> : k \in SessionKinds \X SessionKinds}

MaxRuns == 2

SessionStart ==
    /\ uploaded_files \in SessionBatches
    /\ app_job_description \in JobDescriptions
    /\ app_pc = "ready"
    /\ file_index = 0
    /\ app_resumes_data = <<>>
    /\ job_id = NoJobId
    /\ st_errors = <<>>
    /\ temp_files = [created |-> {}, existing |-> {}, unlinked |-> <<>>]
    /\ db_rows = <<>>
    /\ db_calls = <<>>
    /\ session_state = [processed_resumes |-> Unset, job_skills |-> Unset,
                        job_requirements |-> Unset, ranked_resumes |-> Unset]
    /\ min_skill_match = 50
    /\ app_top_n = 5
    /\ shown_resumes = <<>>

RunStart == app_run = 1

RunIdle == app_run = 0

\* The run of the script is over, its results section included; the user changes
\* the uploads and the job description and presses "Analyze Resumes" again.  The
\* script starts anew: its variables and what it has shown are gone, while
\* st.session_state, the sliders, the database and the file system are as the
\* run before left them.
PressAnalyzeAgain ==
    /\ app_pc = "shown" \/ (app_pc = "done" /\ ~Truthy(session_state.ranked_resumes))
    /\ app_run < MaxRuns
    /\ app_run' = app_run + 1
    /\ uploaded_files' \in SessionBatches
    /\ app_job_description' \in JobDescriptions
    /\ app_pc' = "ready"
    /\ file_index' = 0
    /\ app_resumes_data' = <<>>
    /\ job_id' = NoJobId
    /\ st_errors' = <<>>
    /\ shown_resumes' = <<>>
    /\ UNCHANGED <<min_skill_match, app_top_n, temp_files, db_rows, db_calls, session_state>>
    /\ UNCHANGED <<preVars, rankVars, scoreVars, kwVars, skillVars, entVars, loadVars,
                   pctVars, reqVars, callVars, candVars>>

SessionNext == Analyze \/ ProcessFile \/ FinishBatch \/ Display \/ PressAnalyzeAgain

\* The candidates the session holds were scored against the job skills it holds:
\* their matching skills are those they have with these job skills, and their
\* score has the skill term of these job skills.
RankedAgainstStoredJob ==
    LET job_skills == Value(session_state.job_skills)
    IN \A i \in 1..Len(AppRanked) :
           /\ AppRanked[i].matching_skills = matching_skills(job_skills, AppRanked[i].skills)
           /\ \E cosine \in 0..(CosScale + 1) :
                  AppRanked[i].similarity_score
                      = combined_score(skill_match_ratio(job_skills, AppRanked[i].skills),
                                       cosine)

\* C24: after every run of a session, the ranked list, the job skills and the job
\* requirements of the session state are of the same run: every stored candidate
\* was scored against the stored job skills.
SessionOfOneRun ==
    (app_pc \in {"done", "shown"} /\ Truthy(session_state.ranked_resumes)) =>
        /\ session_state.job_skills # Unset
        /\ session_state.job_requirements
               = Stored([required_skills |-> Range(Value(session_state.job_skills))])
        /\ RankedAgainstStoredJob

\* C27: every pass of the loop makes one temporary file, under a new name, and
\* unlinks it, once, before the pass is over, however the pass ends; no other
\* step touches the temporary files, so none exists between two passes or
\* after the batch.
TemporaryFilesUnlinkedOnce ==
    [][/\ temp_files'.existing = {}
       /\ IF app_pc = "loop" /\ file_index' = file_index + 1
          THEN \E temp_file_path \in temp_files'.created \ temp_files.created :
                   /\ temp_files'.created = temp_files.created \cup {temp_file_path}
                   /\ temp_files'.unlinked = Append(temp_files.unlinked, temp_file_path)
          ELSE temp_files' = temp_files]_vars

\* A batch of two uploads, the first with an extension the loop skips and the
\* second one on which the parser raises, is over: two files were made and
\* unlinked, none is left.
TemporaryFilesUnlinkedOnceWitness ==
    /\ app_pc = "done"
    /\ app_run = 1
    /\ Len(uploaded_files) = 2
    /\ uploaded_files[1].ext = ".txt"
    /\ uploaded_files[2].extraction = "raises"
    /\ temp_files = [created |-> {1, 2}, existing |-> {}, unlinked |-> <<1, 2>>]

(***************************************************************************)
(* Specifications                                                          *)
(***************************************************************************)

\* Each specification starts one operation on its inputs and leaves the state of
\* the others at rest.
InitPre == PreStart /\ RankIdle /\ ScoreIdle /\ KwIdle /\ SkillIdle /\ AppIdle /\ EntIdle /\ LoadIdle /\ PctIdle /\ ReqIdle /\ CallIdle /\ CandIdle /\ RunIdle

SpecPre == InitPre /\ [][PreNext]_vars

InitRank == PreIdle /\ RankStart /\ ScoreIdle /\ KwIdle /\ SkillIdle /\ AppIdle /\ EntIdle /\ LoadIdle /\ PctIdle /\ ReqIdle /\ CallIdle /\ CandIdle /\ RunIdle

SpecRank == InitRank /\ [][Rank]_vars

InitScore == PreIdle /\ RankIdle /\ ScoreStart /\ KwIdle /\ SkillIdle /\ AppIdle /\ EntIdle /\ LoadIdle /\ PctIdle /\ ReqIdle /\ CallIdle /\ CandIdle /\ RunIdle

SpecScore == InitScore /\ [][Score]_vars

InitKeywords == PreIdle /\ RankIdle /\ ScoreIdle /\ KwStart /\ SkillIdle /\ AppIdle /\ EntIdle /\ LoadIdle /\ PctIdle /\ ReqIdle /\ CallIdle /\ CandIdle /\ RunIdle

SpecKeywords == InitKeywords /\ [][TopKeywords]_vars

InitSkills == PreIdle /\ RankIdle /\ ScoreIdle /\ KwIdle /\ SkillStart /\ AppIdle /\ EntIdle /\ LoadIdle /\ PctIdle /\ ReqIdle /\ CallIdle /\ CandIdle /\ RunIdle

SpecSkills == InitSkills /\ [][ExtractSkills]_vars

InitApp == PreIdle /\ RankIdle /\ ScoreIdle /\ KwIdle /\ SkillIdle /\ AppStart /\ EntIdle /\ LoadIdle /\ PctIdle /\ ReqIdle /\ CallIdle /\ CandIdle /\ RunIdle

SpecApp == InitApp /\ [][AppNext]_vars

InitEntities == PreIdle /\ RankIdle /\ ScoreIdle /\ KwIdle /\ SkillIdle /\ AppIdle /\ EntStart /\ LoadIdle /\ PctIdle /\ ReqIdle /\ CallIdle /\ CandIdle /\ RunIdle

SpecEntities == InitEntities /\ [][ExtractEntities]_vars

InitLoad == PreIdle /\ RankIdle /\ ScoreIdle /\ KwIdle /\ SkillIdle /\ AppIdle /\ EntIdle /\ LoadStart /\ PctIdle /\ ReqIdle /\ CallIdle /\ CandIdle /\ RunIdle

SpecLoad == InitLoad /\ [][LoadSkillPatterns]_vars

InitPercent == PreIdle /\ RankIdle /\ ScoreIdle /\ KwIdle /\ SkillIdle /\ AppIdle /\ EntIdle /\ LoadIdle /\ PctStart /\ ReqIdle /\ CallIdle /\ CandIdle /\ RunIdle

SpecPercent == InitPercent /\ [][MatchPercentage]_vars

InitRequirements == PreIdle /\ RankIdle /\ ScoreIdle /\ KwIdle /\ SkillIdle /\ AppIdle /\ EntIdle /\ LoadIdle /\ PctIdle /\ ReqStart /\ CallIdle /\ CandIdle /\ RunIdle

SpecRequirements == InitRequirements /\ [][ExtractJobRequirements]_vars

InitCalls == PreIdle /\ RankIdle /\ ScoreIdle /\ KwIdle /\ SkillIdle /\ AppIdle /\ EntIdle /\ LoadIdle /\ PctIdle /\ ReqIdle /\ CallStart /\ CandIdle /\ RunIdle

SpecCalls == InitCalls /\ [][CallsNext]_vars

InitCandidate == PreIdle /\ RankIdle /\ ScoreIdle /\ KwIdle /\ SkillIdle /\ AppIdle /\ EntIdle /\ LoadIdle /\ PctIdle /\ ReqIdle /\ CallIdle /\ CandStart /\ RunIdle

SpecCandidate == InitCandidate /\ [][ResumeEntities]_vars

InitRequirementLists == PreIdle /\ RankIdle /\ ScoreIdle /\ KwIdle /\ SkillIdle /\ AppIdle /\ EntIdle /\ LoadIdle /\ PctIdle /\ ReqListsStart /\ CallIdle /\ CandIdle /\ RunIdle

SpecRequirementLists == InitRequirementLists /\ [][ExtractJobRequirements]_vars

InitSession == PreIdle /\ RankIdle /\ ScoreIdle /\ KwIdle /\ SkillIdle /\ SessionStart /\ EntIdle /\ LoadIdle /\ PctIdle /\ ReqIdle /\ CallIdle /\ CandIdle /\ RunStart

SpecSession == InitSession /\ [][SessionNext]_vars

====
